---- MODULE Spec2Model ----
(***************************************************************************)
(* Type model, type relations, binding environment and type checker of     *)
(* the gradually typed Lua dialect (src/src/type.h, type.cpp,              *)
(* environment.cpp, typechecker.cpp).                                      *)
(*                                                                         *)
(* A Type* is a natural number: nullptr is 0, the six BasicType singletons *)
(* are 1..6 and the i-th element of TypeFactory::types is NumBasic + i.    *)
(***************************************************************************)
EXTENDS Naturals, Sequences, FiniteSets, TLC

VARIABLES
    types,                      \* TypeFactory::types, the arena of complex types
    scopes,                     \* Environment::scopes, innermost scope last
    currentFunctionReturnType,  \* TypeChecker::currentFunctionReturnType
    program,                    \* Program::statements handed to typeCheck so far, with their type slots
    status,                     \* "ready", or "threw" once a TypeCheckError left typeCheck
    error,                      \* what() of that TypeCheckError, "" when none was thrown
    lastCall                    \* the last library call: [op, args, ret]

vars == <<types, scopes, currentFunctionReturnType, program, status, error, lastCall>>

-----------------------------------------------------------------------------
(* Bounds of the model *)

\* Arena budget: every complex type takes one cell plus one per child pointer.
MaxCells == 5
\* Depth of the scope stack explored for the Environment alone.
MaxDepth == 3
\* Number of top-level statements handed to typeCheck.
MaxStmts == 2
\* Unions made by createUnionType in a run of UnionSpec.
MaxUnions == 2

-----------------------------------------------------------------------------
(* Type pointers *)

nullptr == 0
numberType == 1
stringType == 2
booleanType == 3
nilType == 4
unknownType == 5
anyType == 6
NumBasic == 6

BasicTypes == {numberType, stringType, booleanType, nilType, unknownType, anyType}

\* Every non-null Type* that exists when the arena is T.
Refs(T) == 1..(NumBasic + Len(T))

\* Field and variable names, in the order std::map<std::string, _> iterates them.
Names == <<"a", "b", "f", "g", "x", "y">>

NameRank(n) == CHOOSE i \in 1..Len(Names) : Names[i] = n

\* The complex type a pointer refers to.
Deref(t, T) == T[t - NumBasic]

getKind(t, T) ==
    IF t = numberType THEN "Number"
    ELSE IF t = stringType THEN "String"
    ELSE IF t = booleanType THEN "Boolean"
    ELSE IF t = nilType THEN "Nil"
    ELSE IF t = unknownType THEN "Unknown"
    ELSE IF t = anyType THEN "Any"
    ELSE Deref(t, T).kind

FunctionType(param_types, return_type) ==
    [kind |-> "Function", paramTypes |-> param_types, returnType |-> return_type]

UnionType(ts) == [kind |-> "Union", types |-> ts]

ArrayType(element_type) == [kind |-> "Array", elementType |-> element_type]

\* fields: sequence of [key, val], sorted by key, keys unique (a std::map).
TableType(fields) == [kind |-> "Table", fields |-> fields]

RecordType(key_type, value_type) ==
    [kind |-> "Record", keyType |-> key_type, valueType |-> value_type]

-----------------------------------------------------------------------------
(* std::map<std::string, V>: a sequence of [key, val], sorted by key *)

MapHas(m, k) == \E i \in 1..Len(m) : m[i].key = k

MapGet(m, k) == m[CHOOSE i \in 1..Len(m) : m[i].key = k].val

\* m[k] = v: overwrite the entry, or insert it at its place in key order.
MapPut(m, k, v) ==
    IF MapHas(m, k)
    THEN [i \in 1..Len(m) |-> IF m[i].key = k THEN [key |-> k, val |-> v] ELSE m[i]]
    ELSE LET before == SelectSeq(m, LAMBDA e : NameRank(e.key) < NameRank(k))
             after == SelectSeq(m, LAMBDA e : NameRank(e.key) > NameRank(k))
         IN before \o <<[key |-> k, val |-> v]>> \o after

-----------------------------------------------------------------------------
(* Type relations *)

RECURSIVE isSameType(_, _, _)

\* isSameType that looks for the fields of a among those of b without
\* comparing the two field counts.
isSameType_NoFieldCount(a, b, T) ==
    IF a = b THEN TRUE
    ELSE IF a = nullptr \/ b = nullptr THEN FALSE
    ELSE IF getKind(a, T) # getKind(b, T) THEN FALSE
    ELSE IF a \in BasicTypes THEN a = b
    ELSE LET na == Deref(a, T)
             nb == Deref(b, T)
         IN CASE na.kind = "Array" ->
                    isSameType(na.elementType, nb.elementType, T)
              [] na.kind = "Function" ->
                    IF Len(na.paramTypes) # Len(nb.paramTypes) THEN FALSE
                    ELSE /\ \A i \in 1..Len(na.paramTypes) :
                                isSameType(na.paramTypes[i], nb.paramTypes[i], T)
                         /\ isSameType(na.returnType, nb.returnType, T)
              [] na.kind = "Union" ->
                    IF Len(na.types) # Len(nb.types) THEN FALSE
                    ELSE \A i \in 1..Len(na.types) :
                            \E j \in 1..Len(nb.types) :
                                isSameType(na.types[i], nb.types[j], T)
              [] na.kind = "Table" ->
                    \A i \in 1..Len(na.fields) :
                        \E j \in 1..Len(nb.fields) :
                            /\ na.fields[i].key = nb.fields[j].key
                            /\ isSameType(na.fields[i].val, nb.fields[j].val, T)
              [] na.kind = "Record" ->
                    /\ isSameType(na.keyType, nb.keyType, T)
                    /\ isSameType(na.valueType, nb.valueType, T)
              [] OTHER -> FALSE

isSameType(a, b, T) ==
    IF a = b THEN TRUE
    ELSE IF a = nullptr \/ b = nullptr THEN FALSE
    ELSE IF getKind(a, T) # getKind(b, T) THEN FALSE
    ELSE IF a \in BasicTypes THEN a = b
    ELSE LET na == Deref(a, T)
             nb == Deref(b, T)
         IN CASE na.kind = "Array" ->
                    isSameType(na.elementType, nb.elementType, T)
              [] na.kind = "Function" ->
                    IF Len(na.paramTypes) # Len(nb.paramTypes) THEN FALSE
                    ELSE /\ \A i \in 1..Len(na.paramTypes) :
                                isSameType(na.paramTypes[i], nb.paramTypes[i], T)
                         /\ isSameType(na.returnType, nb.returnType, T)
              [] na.kind = "Union" ->
                    IF Len(na.types) # Len(nb.types) THEN FALSE
                    ELSE \A i \in 1..Len(na.types) :
                            \E j \in 1..Len(nb.types) :
                                isSameType(na.types[i], nb.types[j], T)
              [] na.kind = "Table" ->
                    IF Len(na.fields) # Len(nb.fields) THEN FALSE
                    ELSE \A i \in 1..Len(na.fields) :
                            \E j \in 1..Len(nb.fields) :
                                /\ na.fields[i].key = nb.fields[j].key
                                /\ isSameType(na.fields[i].val, nb.fields[j].val, T)
              [] na.kind = "Record" ->
                    /\ isSameType(na.keyType, nb.keyType, T)
                    /\ isSameType(na.valueType, nb.valueType, T)
              [] OTHER -> FALSE

RECURSIVE isSubtype(_, _, _)

\* isSubtype without its opening isSameType test.
isSubtype_NoSameTypeTest(sub, super, T) ==
    IF super = nullptr \/ sub = nullptr THEN FALSE
    ELSE IF getKind(super, T) = "Any" THEN TRUE
    ELSE IF getKind(sub, T) = "Unknown" THEN TRUE
    ELSE IF getKind(super, T) = "Union" THEN
        \E i \in 1..Len(Deref(super, T).types) :
            isSubtype(sub, Deref(super, T).types[i], T)
    ELSE IF getKind(sub, T) = "Union" THEN
        \A i \in 1..Len(Deref(sub, T).types) :
            isSubtype(Deref(sub, T).types[i], super, T)
    ELSE FALSE

\* isSubtype testing the kind of sub, not of super, for Any.
isSubtype_AnyOnSub(sub, super, T) ==
    IF isSameType(sub, super, T) THEN TRUE
    ELSE IF super = nullptr \/ sub = nullptr THEN FALSE
    ELSE IF getKind(sub, T) = "Any" THEN TRUE
    ELSE IF getKind(sub, T) = "Unknown" THEN TRUE
    ELSE IF getKind(super, T) = "Union" THEN
        \E i \in 1..Len(Deref(super, T).types) :
            isSubtype(sub, Deref(super, T).types[i], T)
    ELSE IF getKind(sub, T) = "Union" THEN
        \A i \in 1..Len(Deref(sub, T).types) :
            isSubtype(Deref(sub, T).types[i], super, T)
    ELSE FALSE

\* isSubtype looking at a Union sub before a Union super.
isSubtype_SubUnionFirst(sub, super, T) ==
    IF isSameType(sub, super, T) THEN TRUE
    ELSE IF super = nullptr \/ sub = nullptr THEN FALSE
    ELSE IF getKind(super, T) = "Any" THEN TRUE
    ELSE IF getKind(sub, T) = "Unknown" THEN TRUE
    ELSE IF getKind(sub, T) = "Union" THEN
        \A i \in 1..Len(Deref(sub, T).types) :
            isSubtype(Deref(sub, T).types[i], super, T)
    ELSE IF getKind(super, T) = "Union" THEN
        \E i \in 1..Len(Deref(super, T).types) :
            isSubtype(sub, Deref(super, T).types[i], T)
    ELSE FALSE

isSubtype(sub, super, T) ==
    IF isSameType(sub, super, T) THEN TRUE
    ELSE IF super = nullptr \/ sub = nullptr THEN FALSE
    ELSE IF getKind(super, T) = "Any" THEN TRUE
    ELSE IF getKind(sub, T) = "Unknown" THEN TRUE
    ELSE IF getKind(super, T) = "Union" THEN
        \E i \in 1..Len(Deref(super, T).types) :
            isSubtype(sub, Deref(super, T).types[i], T)
    ELSE IF getKind(sub, T) = "Union" THEN
        \A i \in 1..Len(Deref(sub, T).types) :
            isSubtype(Deref(sub, T).types[i], super, T)
    ELSE FALSE

-----------------------------------------------------------------------------
(* TypeFactory: every method appends to the arena and returns the new pointer. *)

\* The result of a factory call: the arena afterwards and the pointer returned.
Made(T, node) == [types |-> Append(T, node), ret |-> NumBasic + Len(T) + 1]

createFunctionType(paramTypes, returnType, T) == Made(T, FunctionType(paramTypes, returnType))

createArrayType(elementType, T) == Made(T, ArrayType(elementType))

createTableType(fields, T) == Made(T, TableType(fields))

createRecordType(keyType, valueType, T) == Made(T, RecordType(keyType, valueType))

\* createUnionType with std::all_of in place of std::any_of.
createUnionType_AllOf(types_list, T) ==
    IF \A i \in 1..Len(types_list) : getKind(types_list[i], T) = "Any"
    THEN [types |-> T, ret |-> anyType]
    ELSE Made(T, UnionType(types_list))

createUnionType(types_list, T) ==
    IF \E i \in 1..Len(types_list) : getKind(types_list[i], T) = "Any"
    THEN [types |-> T, ret |-> anyType]
    ELSE Made(T, UnionType(types_list))

\* unifyTypes is declared in type.h and called by the checker; its body is not
\* part of the sources, so it follows the specification: flatten, deduplicate,
\* the shared type when all inputs are equal, otherwise a Union (Any absorbs).
RECURSIVE Flatten(_, _)
Flatten(ts, T) ==
    IF ts = <<>> THEN <<>>
    ELSE LET h == Head(ts)
         IN (IF getKind(h, T) = "Union" THEN Flatten(Deref(h, T).types, T) ELSE <<h>>)
                \o Flatten(Tail(ts), T)

RECURSIVE Dedup(_, _, _)
Dedup(ts, seen, T) ==
    IF ts = <<>> THEN seen
    ELSE IF \E i \in 1..Len(seen) : isSameType(seen[i], Head(ts), T)
         THEN Dedup(Tail(ts), seen, T)
         ELSE Dedup(Tail(ts), Append(seen, Head(ts)), T)

unifyTypes(ts, T) ==
    IF \A i \in 1..Len(ts) : isSameType(ts[1], ts[i], T)
    THEN [types |-> T, ret |-> ts[1]]
    ELSE LET distinct == Dedup(Flatten(ts, T), <<>>, T)
         IN IF Len(distinct) = 1
            THEN [types |-> T, ret |-> distinct[1]]
            ELSE createUnionType(distinct, T)

-----------------------------------------------------------------------------
(* The type library driven directly: any sequence of factory calls. *)

\* Cells a complex type takes: itself and one per child pointer.
NodeCells(n) ==
    CASE n.kind = "Array" -> 2
      [] n.kind = "Record" -> 3
      [] n.kind = "Function" -> 2 + Len(n.paramTypes)
      [] n.kind = "Union" -> 1 + Len(n.types)
      [] n.kind = "Table" -> 1 + Len(n.fields)

RECURSIVE Cells(_)
Cells(T) == IF T = <<>> THEN 0 ELSE NodeCells(Head(T)) + Cells(Tail(T))

Free(T) == MaxCells - Cells(T)

\* Pointers handed to the factory: the basic types that differ in how the
\* relations treat them, and every complex type made so far.
BasicOperands == {numberType, stringType, anyType}
Operands(T) == BasicOperands \cup ((NumBasic + 1)..(NumBasic + Len(T)))

Lists(S, lo, hi) == UNION {[1..n -> S] : n \in lo..hi}

\* The entries put into a std::map<std::string, Type*> before it is handed to
\* createTableType: up to two of them, over the keys x and y, in either order.
Insertions(S) ==
    {<<>>}
    \cup {<<[key |-> k, val |-> v]>> : k \in {"x", "y"}, v \in S}
    \cup {<<[key |-> ks[1], val |-> v], [key |-> ks[2], val |-> w]>> :
            ks \in {<<"x", "y">>, <<"y", "x">>}, v \in S, w \in S}

\* The map after fields[key] = val for each entry in turn.
RECURSIVE FieldsFrom(_, _)
FieldsFrom(entries, fields) ==
    IF entries = <<>> THEN fields
    ELSE FieldsFrom(Tail(entries), MapPut(fields, Head(entries).key, Head(entries).val))

Call(op, args, made) ==
    /\ types' = made.types
    /\ lastCall' = [op |-> op, args |-> args, ret |-> made.ret]
    /\ UNCHANGED <<scopes, currentFunctionReturnType, program, status, error>>

CreateFunction ==
    \E ps \in Lists(Operands(types), 0, Free(types) - 2), r \in Operands(types) :
        Call("createFunctionType", <<ps, <<r>> >>, createFunctionType(ps, r, types))

CreateArray ==
    \E e \in Operands(types) :
        /\ Free(types) >= 2
        /\ Call("createArrayType", <<e>>, createArrayType(e, types))

CreateTable ==
    \E ins \in Insertions(Operands(types)) :
        /\ Free(types) >= 1 + Len(ins)
        /\ Call("createTableType", ins, createTableType(FieldsFrom(ins, <<>>), types))

CreateRecord ==
    \E k \in Operands(types), v \in Operands(types) :
        /\ Free(types) >= 3
        /\ Call("createRecordType", <<k, v>>, createRecordType(k, v, types))

CreateUnion ==
    \E ts \in Lists(Operands(types), 0, Free(types) - 1) :
        Call("createUnionType", ts, createUnionType(ts, types))

UnifyTypes ==
    \E ts \in Lists(Operands(types), 1, Free(types) - 1) :
        Call("unifyTypes", ts, unifyTypes(ts, types))

NoCall == [op |-> "none", args |-> <<>>, ret |-> nullptr]

TypeInit ==
    /\ types = <<>>
    /\ scopes = <<>>
    /\ currentFunctionReturnType = nullptr
    /\ program = <<>>
    /\ status = "ready"
    /\ error = ""
    /\ lastCall = NoCall

TypeNext ==
    \/ CreateFunction
    \/ CreateArray
    \/ CreateTable
    \/ CreateRecord
    \/ CreateUnion
    \/ UnifyTypes

TypeSpec == TypeInit /\ [][TypeNext]_vars

-----------------------------------------------------------------------------
(* Unions alone: createUnionType and unifyTypes over Number, String and the *)
(* unions made so far.                                                      *)

UnionOperands(T) == {numberType, stringType} \cup ((NumBasic + 1)..(NumBasic + Len(T)))

Pairs(S) == {<<a, b>> : a \in S, b \in S}

Triples(S) == {<<a, b, c>> : a \in S, b \in S, c \in S}

UnionCreate ==
    /\ Len(types) < MaxUnions
    /\ \E args \in Pairs(UnionOperands(types)) :
          Call("createUnionType", args, createUnionType(args, types))

UnionUnify ==
    /\ Len(types) <= MaxUnions
    /\ \E args \in Pairs(UnionOperands(types)) \cup Triples(UnionOperands(types)) :
          Call("unifyTypes", args, unifyTypes(args, types))

UnionNext == UnionCreate \/ UnionUnify

UnionSpec == TypeInit /\ [][UnionNext]_vars

-----------------------------------------------------------------------------
(* Unions of one to three members and arrays, for the subtype relation *)

SubtypeOperands(T) == {numberType, stringType} \cup (Refs(T) \ BasicTypes)

SubtypeUnion ==
    /\ Len(types) < MaxUnions
    /\ \E ts \in Lists(SubtypeOperands(types), 1, 3) :
            Call("createUnionType", ts, createUnionType(ts, types))

SubtypeArray ==
    /\ Len(types) < MaxUnions
    /\ \E e \in SubtypeOperands(types) :
            Call("createArrayType", <<e>>, createArrayType(e, types))

SubtypeNext == SubtypeUnion \/ SubtypeArray

SubtypeSpec == TypeInit /\ [][SubtypeNext]_vars

-----------------------------------------------------------------------------
(* Environment *)

Front(S) == SubSeq(S, 1, Len(S) - 1)

pushScope(S) == Append(S, <<>>)

popScope(S) == IF S # <<>> THEN Front(S) ELSE S

define(name, type, S) ==
    LET S1 == IF S = <<>> THEN pushScope(S) ELSE S
    IN [S1 EXCEPT ![Len(S1)] = MapPut(@, name, type)]

RECURSIVE lookup(_, _)

\* lookup iterating begin() to end(): outermost scope first.
RECURSIVE lookup_OutermostFirst(_, _)
lookup_OutermostFirst(name, S) ==
    IF S = <<>> THEN nullptr
    ELSE IF MapHas(Head(S), name) THEN MapGet(Head(S), name)
    ELSE lookup_OutermostFirst(name, Tail(S))

lookup(name, S) ==
    IF S = <<>> THEN nullptr
    ELSE IF MapHas(S[Len(S)], name) THEN MapGet(S[Len(S)], name)
    ELSE lookup(name, Front(S))

-----------------------------------------------------------------------------
(* The Environment driven directly, as environment_test.cpp does *)

EnvNames == {"x", "y"}
EnvTypes == {numberType, stringType}

EnvCall(op, args, ret, S) ==
    /\ scopes' = S
    /\ lastCall' = [op |-> op, args |-> args, ret |-> ret]
    /\ UNCHANGED <<types, currentFunctionReturnType, program, status, error>>

PushScope ==
    /\ Len(scopes) < MaxDepth
    /\ EnvCall("pushScope", <<>>, nullptr, pushScope(scopes))

PopScope == EnvCall("popScope", <<>>, nullptr, popScope(scopes))

Define ==
    \E n \in EnvNames, t \in EnvTypes :
        EnvCall("define", <<n, t>>, nullptr, define(n, t, scopes))

Lookup ==
    \E n \in EnvNames :
        EnvCall("lookup", <<n>>, lookup(n, scopes), scopes)

EnvInit == TypeInit

EnvNext == PushScope \/ PopScope \/ Define \/ Lookup

EnvSpec == EnvInit /\ [][EnvNext]_vars

-----------------------------------------------------------------------------
(* The AST of ast.h.  Every Expr carries its type slot (nullptr until the  *)
(* checker assigns it) and the number of times a visitor entered it.       *)

Expr(kind) == [kind |-> kind, type |-> nullptr, visits |-> 0]

StringExpr == Expr("StringExpr")
NumberExpr == Expr("NumberExpr")
NilExpr == Expr("NilExpr")
BooleanExpr == Expr("BooleanExpr")

VarExpr(name) == [kind |-> "VarExpr", type |-> nullptr, visits |-> 0, name |-> name]

\* mapPart: sequence of [key, val] in key order, val an Expr.
TableExpr(arrayPart, mapPart) ==
    [kind |-> "TableExpr", type |-> nullptr, visits |-> 0,
     arrayPart |-> arrayPart, mapPart |-> mapPart]

UnaryOpExpr(op, right) ==
    [kind |-> "UnaryOpExpr", type |-> nullptr, visits |-> 0, op |-> op, right |-> right]

BinOpExpr(left, op, right) ==
    [kind |-> "BinOpExpr", type |-> nullptr, visits |-> 0,
     left |-> left, op |-> op, right |-> right]

IndexExpr(object, index) ==
    [kind |-> "IndexExpr", type |-> nullptr, visits |-> 0, object |-> object, index |-> index]

FunCallExpr(callee, args) ==
    [kind |-> "FunCallExpr", type |-> nullptr, visits |-> 0, callee |-> callee, args |-> args]

\* std::optional<TypeAnnotation>: "nullopt", a BasicTypeAnnotation kind, or the
\* name of one of the other alternatives of the variant.
nullopt == "nullopt"
BasicAnnotations == {"number", "string", "boolean", "nil"}
OtherAnnotations == {"function", "table", "array", "union"}

Parameter(name, typeAnnotation) == [name |-> name, typeAnnotation |-> typeAnnotation]

FunDecl(name, params, body, returnTypeAnnotation) ==
    [kind |-> "FunDecl", type |-> nullptr, name |-> name, params |-> params,
     body |-> body, returnTypeAnnotation |-> returnTypeAnnotation]

VarDecl(name, initExpr, typeAnnotation) ==
    [kind |-> "VarDecl", type |-> nullptr, name |-> name, initExpr |-> initExpr,
     typeAnnotation |-> typeAnnotation]

VarDecls(decls) == [kind |-> "VarDecls", decls |-> decls]

\* A null else_branch.
NoStmt == [kind |-> "null"]

IfStmt(condition, then_branch, else_branch) ==
    [kind |-> "IfStmt", condition |-> condition, then_branch |-> then_branch,
     else_branch |-> else_branch]

ReturnStmt(return_values) == [kind |-> "ReturnStmt", return_values |-> return_values]

BlockStmt(statements) == [kind |-> "BlockStmt", statements |-> statements]

FunCallStmt(call) == [kind |-> "FunCallStmt", call |-> call]

AssignStmt(left, right) == [kind |-> "AssignStmt", left |-> left, right |-> right]

-----------------------------------------------------------------------------
(* TypeChecker.  A visit takes the node and the checker's state c =         *)
(* [scopes, types, crt, err] and returns the node with its slots written    *)
(* and the state afterwards; err # "" is a TypeCheckError in flight, which  *)
(* every caller passes on without doing anything more.                      *)

Checker(S, T, crt) == [scopes |-> S, types |-> T, crt |-> crt, err |-> ""]

Result(node, c) == [node |-> node, c |-> c]

throw(message, c) == [c EXCEPT !.err = message]

isAny(type, T) == getKind(type, T) = "Any"

\* isNumber without its isAny alternative.
isNumber_NoAny(type, T) == type = numberType

isNumber(type, T) == isAny(type, T) \/ type = numberType

\* isString without its isAny alternative.
isString_NoAny(type, T) == type = stringType

isString(type, T) == isAny(type, T) \/ type = stringType

\* resolveTypeAnnotation with an array annotation resolved to Any.
resolveTypeAnnotation_ArrayIsAny(annotation) ==
    CASE annotation = "number" -> [ret |-> numberType, err |-> ""]
      [] annotation = "string" -> [ret |-> stringType, err |-> ""]
      [] annotation = "boolean" -> [ret |-> booleanType, err |-> ""]
      [] annotation = "nil" -> [ret |-> nilType, err |-> ""]
      [] annotation = "function" ->
            [ret |-> nullptr, err |-> "Function type annotations not yet supported"]
      [] annotation = "table" ->
            [ret |-> nullptr, err |-> "Table type annotations not yet supported"]
      [] annotation = "array" ->
            [ret |-> anyType, err |-> ""]
      [] annotation = "union" ->
            [ret |-> nullptr, err |-> "Union type annotations not yet supported"]

resolveTypeAnnotation(annotation) ==
    CASE annotation = "number" -> [ret |-> numberType, err |-> ""]
      [] annotation = "string" -> [ret |-> stringType, err |-> ""]
      [] annotation = "boolean" -> [ret |-> booleanType, err |-> ""]
      [] annotation = "nil" -> [ret |-> nilType, err |-> ""]
      [] annotation = "function" ->
            [ret |-> nullptr, err |-> "Function type annotations not yet supported"]
      [] annotation = "table" ->
            [ret |-> nullptr, err |-> "Table type annotations not yet supported"]
      [] annotation = "array" ->
            [ret |-> nullptr, err |-> "Array type annotations not yet supported"]
      [] annotation = "union" ->
            [ret |-> nullptr, err |-> "Union type annotations not yet supported"]

ArithmeticOps == {"Plus", "Minus", "Star", "Slash"}
EqualityOps == {"Equal", "NotEqual"}
OrderingOps == {"Less", "Greater", "LessEqual", "GreaterEqual"}
LogicalOps == {"And", "Or"}

\* The value of one call, named for the code that runs after it.
Bind(val, rest(_)) == rest(val)

RECURSIVE Visit(_, _)
RECURSIVE VisitAll(_, _)

\* accept on each Expr of a sequence, in order, until one throws.
VisitAll(es, c) ==
    IF es = <<>> \/ c.err # "" THEN [nodes |-> es, c |-> c]
    ELSE Bind(Visit(Head(es), c), LAMBDA h :
         Bind(VisitAll(Tail(es), h.c), LAMBDA t :
            [nodes |-> <<h.node>> \o t.nodes, c |-> t.c]))

TypesOf(es) == [i \in 1..Len(es) |-> es[i].type]

\* fields[key] = value->type for each entry of a mapPart, in order.
RECURSIVE FieldsOf(_, _)
FieldsOf(entries, fields) ==
    IF entries = <<>> THEN fields
    ELSE FieldsOf(Tail(entries), MapPut(fields, Head(entries).key, Head(entries).val.type))

\* visit(TableExpr&) with the first element's type in place of unifyTypes.
visitTableExpr_FirstElement(expr, c) ==
    LET hasArrayPart == expr.arrayPart # <<>>
        hasMapPart == expr.mapPart # <<>>
    IN IF hasArrayPart /\ hasMapPart
       THEN Result(expr, throw("Type error: mixed table literals are not allowed", c))
       ELSE IF hasArrayPart
       THEN Bind(VisitAll(expr.arrayPart, c), LAMBDA r :
            IF r.c.err # ""
            THEN Result([expr EXCEPT !.arrayPart = r.nodes], r.c)
            ELSE Bind(createArrayType(r.nodes[1].type, r.c.types), LAMBDA a :
                    Result([expr EXCEPT !.arrayPart = r.nodes, !.type = a.ret],
                           [r.c EXCEPT !.types = a.types])))
       ELSE IF hasMapPart
       THEN Bind(VisitAll([i \in 1..Len(expr.mapPart) |-> expr.mapPart[i].val], c), LAMBDA r :
            LET visited == [i \in 1..Len(expr.mapPart) |->
                                [key |-> expr.mapPart[i].key, val |-> r.nodes[i]]]
                fields == FieldsOf(visited, <<>>)
            IN IF r.c.err # ""
               THEN Result([expr EXCEPT !.mapPart = visited], r.c)
               ELSE Bind(createTableType(fields, r.c.types), LAMBDA t :
                       Result([expr EXCEPT !.mapPart = visited, !.type = t.ret],
                              [r.c EXCEPT !.types = t.types])))
       ELSE Bind(createTableType(<<>>, c.types), LAMBDA t :
               Result([expr EXCEPT !.type = t.ret], [c EXCEPT !.types = t.types]))

visitTableExpr(expr, c) ==
    LET hasArrayPart == expr.arrayPart # <<>>
        hasMapPart == expr.mapPart # <<>>
    IN IF hasArrayPart /\ hasMapPart
       THEN Result(expr, throw("Type error: mixed table literals are not allowed", c))
       ELSE IF hasArrayPart
       THEN Bind(VisitAll(expr.arrayPart, c), LAMBDA r :
            IF r.c.err # ""
            THEN Result([expr EXCEPT !.arrayPart = r.nodes], r.c)
            ELSE Bind(unifyTypes(TypesOf(r.nodes), r.c.types), LAMBDA u :
                 Bind(createArrayType(u.ret, u.types), LAMBDA a :
                    Result([expr EXCEPT !.arrayPart = r.nodes, !.type = a.ret],
                           [r.c EXCEPT !.types = a.types]))))
       ELSE IF hasMapPart
       THEN Bind(VisitAll([i \in 1..Len(expr.mapPart) |-> expr.mapPart[i].val], c), LAMBDA r :
            LET visited == [i \in 1..Len(expr.mapPart) |->
                                [key |-> expr.mapPart[i].key, val |-> r.nodes[i]]]
                fields == FieldsOf(visited, <<>>)
            IN IF r.c.err # ""
               THEN Result([expr EXCEPT !.mapPart = visited], r.c)
               ELSE Bind(createTableType(fields, r.c.types), LAMBDA t :
                       Result([expr EXCEPT !.mapPart = visited, !.type = t.ret],
                              [r.c EXCEPT !.types = t.types])))
       ELSE Bind(createTableType(<<>>, c.types), LAMBDA t :
               Result([expr EXCEPT !.type = t.ret], [c EXCEPT !.types = t.types]))

\* visit(VarExpr&) giving an unbound name the Unknown type.
visitVarExpr_Unknown(expr, c) ==
    Bind(lookup(expr.name, c.scopes), LAMBDA t :
        IF t = nullptr
        THEN Result([expr EXCEPT !.type = unknownType], c)
        ELSE Result([expr EXCEPT !.type = t], c))

visitVarExpr(expr, c) ==
    Bind(lookup(expr.name, c.scopes), LAMBDA t :
        IF t = nullptr
        THEN Result([expr EXCEPT !.type = anyType], c)
        ELSE Result([expr EXCEPT !.type = t], c))

\* visit(UnaryOpExpr&) taking the length of a Table as well.
visitUnaryOpExpr_LengthOfTable(expr, c) ==
    Bind(Visit(expr.right, c), LAMBDA r :
    LET e1 == [expr EXCEPT !.right = r.node]
        rt == r.node.type
        T == r.c.types
    IN IF r.c.err # "" THEN Result(e1, r.c)
       ELSE CASE expr.op = "Minus" ->
                    IF ~isNumber(rt, T)
                    THEN Result(e1, throw("Type error: unary minus requires a number type", r.c))
                    ELSE Result([e1 EXCEPT !.type = rt], r.c)
              [] expr.op = "Not" -> Result([e1 EXCEPT !.type = booleanType], r.c)
              [] expr.op = "Length" ->
                    IF getKind(rt, T) \notin {"Array", "Table"} /\ ~isAny(rt, T)
                    THEN Result(e1, throw("Type error: length operator requires array type", r.c))
                    ELSE Result([e1 EXCEPT !.type = numberType], r.c)
              [] OTHER -> Result(e1, throw("Unknown unary operator in type checker", r.c)))

visitUnaryOpExpr(expr, c) ==
    Bind(Visit(expr.right, c), LAMBDA r :
    LET e1 == [expr EXCEPT !.right = r.node]
        rt == r.node.type
        T == r.c.types
    IN IF r.c.err # "" THEN Result(e1, r.c)
       ELSE CASE expr.op = "Minus" ->
                    IF ~isNumber(rt, T)
                    THEN Result(e1, throw("Type error: unary minus requires a number type", r.c))
                    ELSE Result([e1 EXCEPT !.type = rt], r.c)
              [] expr.op = "Not" -> Result([e1 EXCEPT !.type = booleanType], r.c)
              [] expr.op = "Length" ->
                    IF getKind(rt, T) # "Array" /\ ~isAny(rt, T)
                    THEN Result(e1, throw("Type error: length operator requires array type", r.c))
                    ELSE Result([e1 EXCEPT !.type = numberType], r.c)
              [] OTHER -> Result(e1, throw("Unknown unary operator in type checker", r.c)))

\* The same with a member of an object that is no Table given the type Any.
BinOpResult_NonTableIsAny(e2, leftType, right, c) ==
    LET rightType == right.type
        T == c.types
    IN CASE e2.op \in ArithmeticOps ->
                IF ~isNumber(leftType, T) \/ ~isNumber(rightType, T)
                THEN Result(e2, throw("Type error: arithmetic operations require number types", c))
                ELSE Result([e2 EXCEPT !.type = numberType], c)
          [] e2.op = "Assign" -> Result([e2 EXCEPT !.type = rightType], c)
          [] e2.op \in EqualityOps -> Result([e2 EXCEPT !.type = booleanType], c)
          [] e2.op \in OrderingOps ->
                IF \/ isNumber(leftType, T) /\ isNumber(rightType, T)
                   \/ isString(leftType, T) /\ isString(rightType, T)
                THEN Result([e2 EXCEPT !.type = booleanType], c)
                ELSE Result(e2, throw("Type error: comparison requires number or string types", c))
          [] e2.op \in LogicalOps ->
                Bind(createUnionType(<<leftType, rightType>>, T), LAMBDA u :
                    Result([e2 EXCEPT !.type = u.ret], [c EXCEPT !.types = u.types]))
          [] e2.op = "Concat" ->
                IF isString(leftType, T) /\ isString(rightType, T)
                THEN Result([e2 EXCEPT !.type = stringType], c)
                ELSE Result(e2, throw("Type error: concat requires string or number types", c))
          [] e2.op = "MemberAccess" ->
                IF getKind(leftType, T) = "Any"
                THEN Result([e2 EXCEPT !.type = anyType], c)
                ELSE IF getKind(leftType, T) # "Table"
                THEN Result([e2 EXCEPT !.type = anyType], c)
                ELSE IF right.kind # "VarExpr"
                THEN Result(e2, throw("Type error: member access requires an identifier", c))
                ELSE IF MapHas(Deref(leftType, T).fields, right.name)
                THEN Result([e2 EXCEPT !.type = MapGet(Deref(leftType, T).fields, right.name)], c)
                ELSE Result(e2, throw("Type error: field does not exist on type", c))
          [] e2.op = "MethodAccess" -> Result([e2 EXCEPT !.type = anyType], c)
          [] OTHER -> Result(e2, throw("Unknown binary operator in type checker", c))

\* The part of visit(BinOpExpr&) after both operands were visited.
BinOpResult(e2, leftType, right, c) ==
    LET rightType == right.type
        T == c.types
    IN CASE e2.op \in ArithmeticOps ->
                IF ~isNumber(leftType, T) \/ ~isNumber(rightType, T)
                THEN Result(e2, throw("Type error: arithmetic operations require number types", c))
                ELSE Result([e2 EXCEPT !.type = numberType], c)
          [] e2.op = "Assign" -> Result([e2 EXCEPT !.type = rightType], c)
          [] e2.op \in EqualityOps -> Result([e2 EXCEPT !.type = booleanType], c)
          [] e2.op \in OrderingOps ->
                IF \/ isNumber(leftType, T) /\ isNumber(rightType, T)
                   \/ isString(leftType, T) /\ isString(rightType, T)
                THEN Result([e2 EXCEPT !.type = booleanType], c)
                ELSE Result(e2, throw("Type error: comparison requires number or string types", c))
          [] e2.op \in LogicalOps ->
                Bind(createUnionType(<<leftType, rightType>>, T), LAMBDA u :
                    Result([e2 EXCEPT !.type = u.ret], [c EXCEPT !.types = u.types]))
          [] e2.op = "Concat" ->
                IF isString(leftType, T) /\ isString(rightType, T)
                THEN Result([e2 EXCEPT !.type = stringType], c)
                ELSE Result(e2, throw("Type error: concat requires string or number types", c))
          [] e2.op = "MemberAccess" ->
                IF getKind(leftType, T) = "Any"
                THEN Result([e2 EXCEPT !.type = anyType], c)
                ELSE IF getKind(leftType, T) # "Table"
                THEN Result(e2, throw("Type error: cannot access member on non-table type", c))
                ELSE IF right.kind # "VarExpr"
                THEN Result(e2, throw("Type error: member access requires an identifier", c))
                ELSE IF MapHas(Deref(leftType, T).fields, right.name)
                THEN Result([e2 EXCEPT !.type = MapGet(Deref(leftType, T).fields, right.name)], c)
                ELSE Result(e2, throw("Type error: field does not exist on type", c))
          [] e2.op = "MethodAccess" -> Result([e2 EXCEPT !.type = anyType], c)
          [] OTHER -> Result(e2, throw("Unknown binary operator in type checker", c))

visitBinOpExpr(expr, c) ==
    Bind(Visit(expr.left, c), LAMBDA l :
        IF l.c.err # "" THEN Result([expr EXCEPT !.left = l.node], l.c)
        ELSE Bind(Visit(expr.right, l.c), LAMBDA r :
             LET e2 == [expr EXCEPT !.left = l.node, !.right = r.node]
             IN IF r.c.err # "" THEN Result(e2, r.c)
                ELSE BinOpResult(e2, l.node.type, r.node, r.c)))

\* visit(IndexExpr&) without the test of the index of an Array.
visitIndexExpr_AnyIndex(expr, c) ==
    Bind(Visit(expr.object, c), LAMBDA o :
        IF o.c.err # "" THEN Result([expr EXCEPT !.object = o.node], o.c)
        ELSE Bind(Visit(expr.index, o.c), LAMBDA i :
             LET e2 == [expr EXCEPT !.object = o.node, !.index = i.node]
                 objType == o.node.type
                 T == i.c.types
             IN IF i.c.err # "" THEN Result(e2, i.c)
                ELSE IF getKind(objType, T) = "Any"
                THEN Result([e2 EXCEPT !.type = anyType], i.c)
                ELSE IF getKind(objType, T) = "Array"
                THEN Result([e2 EXCEPT !.type = Deref(objType, T).elementType], i.c)
                ELSE IF getKind(objType, T) = "Table"
                THEN Result([e2 EXCEPT !.type = anyType], i.c)
                ELSE Result(e2, throw("Type error: cannot index non-array/table type", i.c))))

visitIndexExpr(expr, c) ==
    Bind(Visit(expr.object, c), LAMBDA o :
        IF o.c.err # "" THEN Result([expr EXCEPT !.object = o.node], o.c)
        ELSE Bind(Visit(expr.index, o.c), LAMBDA i :
             LET e2 == [expr EXCEPT !.object = o.node, !.index = i.node]
                 objType == o.node.type
                 T == i.c.types
             IN IF i.c.err # "" THEN Result(e2, i.c)
                ELSE IF getKind(objType, T) = "Any"
                THEN Result([e2 EXCEPT !.type = anyType], i.c)
                ELSE IF getKind(objType, T) = "Array"
                THEN IF ~isNumber(i.node.type, T) /\ ~isAny(i.node.type, T)
                     THEN Result(e2, throw("Type error: array index must be number", i.c))
                     ELSE Result([e2 EXCEPT !.type = Deref(objType, T).elementType], i.c)
                ELSE IF getKind(objType, T) = "Table"
                THEN Result([e2 EXCEPT !.type = anyType], i.c)
                ELSE Result(e2, throw("Type error: cannot index non-array/table type", i.c))))

\* The argument positions whose type is not a subtype of the parameter's.
Mismatches(args, paramTypes, T) ==
    {i \in 1..Len(args) : ~isSubtype(args[i].type, paramTypes[i], T)}

\* visit(FunCallExpr&) without the comparison of argument and parameter types.
visitFunCallExpr_NoArgCheck(expr, c) ==
    Bind(Visit(expr.callee, c), LAMBDA f :
    LET e1 == [expr EXCEPT !.callee = f.node]
        calleeType == f.node.type
    IN IF f.c.err # "" THEN Result(e1, f.c)
       ELSE IF getKind(calleeType, f.c.types) = "Any"
       THEN Result([e1 EXCEPT !.type = anyType], f.c)
       ELSE IF getKind(calleeType, f.c.types) # "Function"
       THEN Result(e1, throw("Type error: trying to call a non-function type", f.c))
       ELSE IF Len(Deref(calleeType, f.c.types).paramTypes) # Len(expr.args)
       THEN Result(e1, throw("Type error: function called with incorrect number of arguments", f.c))
       ELSE Bind(VisitAll(expr.args, f.c), LAMBDA a :
            LET e2 == [e1 EXCEPT !.args = a.nodes]
            IN IF a.c.err # "" THEN Result(e2, a.c)
               ELSE Result([e2 EXCEPT !.type = Deref(calleeType, a.c.types).returnType], a.c)))

visitFunCallExpr(expr, c) ==
    Bind(Visit(expr.callee, c), LAMBDA f :
    LET e1 == [expr EXCEPT !.callee = f.node]
        calleeType == f.node.type
    IN IF f.c.err # "" THEN Result(e1, f.c)
       ELSE IF getKind(calleeType, f.c.types) = "Any"
       THEN Result([e1 EXCEPT !.type = anyType], f.c)
       ELSE IF getKind(calleeType, f.c.types) # "Function"
       THEN Result(e1, throw("Type error: trying to call a non-function type", f.c))
       ELSE IF Len(Deref(calleeType, f.c.types).paramTypes) # Len(expr.args)
       THEN Result(e1, throw("Type error: function called with incorrect number of arguments", f.c))
       ELSE Bind(VisitAll(expr.args, f.c), LAMBDA a :
            LET e2 == [e1 EXCEPT !.args = a.nodes]
            IN IF a.c.err # "" THEN Result(e2, a.c)
               ELSE IF Mismatches(a.nodes, Deref(calleeType, a.c.types).paramTypes, a.c.types) # {}
               THEN Result(e2, throw("Type error: function argument type mismatch", a.c))
               ELSE Result([e2 EXCEPT !.type = Deref(calleeType, a.c.types).returnType], a.c)))

\* expr.accept(*this): dispatch on the node's class.
Visit(expr, c) ==
    LET e == [expr EXCEPT !.visits = @ + 1]
    IN CASE e.kind = "StringExpr" -> Result([e EXCEPT !.type = stringType], c)
         [] e.kind = "NumberExpr" -> Result([e EXCEPT !.type = numberType], c)
         [] e.kind = "NilExpr" -> Result([e EXCEPT !.type = nilType], c)
         [] e.kind = "BooleanExpr" -> Result([e EXCEPT !.type = booleanType], c)
         [] e.kind = "TableExpr" -> visitTableExpr(e, c)
         [] e.kind = "VarExpr" -> visitVarExpr(e, c)
         [] e.kind = "UnaryOpExpr" -> visitUnaryOpExpr(e, c)
         [] e.kind = "BinOpExpr" -> visitBinOpExpr(e, c)
         [] e.kind = "IndexExpr" -> visitIndexExpr(e, c)
         [] e.kind = "FunCallExpr" -> visitFunCallExpr(e, c)

-----------------------------------------------------------------------------
(* Statements *)

RECURSIVE VisitStmt(_, _)
RECURSIVE VisitStmts(_, _)

\* The loop over statements going on after a statement has thrown.
VisitStmts_KeepGoing(ss, c) ==
    IF ss = <<>> THEN [nodes |-> ss, c |-> c]
    ELSE Bind(VisitStmt(Head(ss), c), LAMBDA h :
         Bind(VisitStmts(Tail(ss), h.c), LAMBDA t :
            [nodes |-> <<h.node>> \o t.nodes, c |-> t.c]))

\* accept on each Stmt of a sequence, in order, until one throws.
VisitStmts(ss, c) ==
    IF ss = <<>> \/ c.err # "" THEN [nodes |-> ss, c |-> c]
    ELSE Bind(VisitStmt(Head(ss), c), LAMBDA h :
         Bind(VisitStmts(Tail(ss), h.c), LAMBDA t :
            [nodes |-> <<h.node>> \o t.nodes, c |-> t.c]))

\* The type of an optional annotation: Any when there is none.
ResolveOptional(annotation) ==
    IF annotation # nullopt THEN resolveTypeAnnotation(annotation)
    ELSE [ret |-> anyType, err |-> ""]

\* The parameter types of a FunDecl, resolved in order until one throws.
RECURSIVE ResolveParams(_)
ResolveParams(params) ==
    IF params = <<>> THEN [ret |-> <<>>, err |-> ""]
    ELSE Bind(ResolveOptional(Head(params).typeAnnotation), LAMBDA h :
            IF h.err # "" THEN [ret |-> <<>>, err |-> h.err]
            ELSE Bind(ResolveParams(Tail(params)), LAMBDA t :
                    IF t.err # "" THEN t
                    ELSE [ret |-> <<h.ret>> \o t.ret, err |-> ""]))

RECURSIVE DefineParams(_, _, _)
DefineParams(params, paramTypes, S) ==
    IF params = <<>> THEN S
    ELSE DefineParams(Tail(params), Tail(paramTypes), define(Head(params).name, Head(paramTypes), S))

\* visit(FunDecl&) binding the function's name after its body was checked.
visitFunDecl_BindAfterBody(stmt, c) ==
    Bind(ResolveParams(stmt.params), LAMBDA p :
    IF p.err # "" THEN Result(stmt, throw(p.err, c))
    ELSE Bind(ResolveOptional(stmt.returnTypeAnnotation), LAMBDA rt :
    IF rt.err # "" THEN Result(stmt, throw(rt.err, c))
    ELSE Bind(createFunctionType(p.ret, rt.ret, c.types), LAMBDA f :
    LET s1 == [stmt EXCEPT !.type = f.ret]
        inner == DefineParams(stmt.params, p.ret, pushScope(c.scopes))
        previousReturnType == c.crt
    IN Bind(VisitStmt(stmt.body, [c EXCEPT !.types = f.types, !.scopes = inner, !.crt = rt.ret]),
            LAMBDA b :
            LET s2 == [s1 EXCEPT !.body = b.node]
            IN IF b.c.err # "" THEN Result(s2, b.c)
               ELSE Result(s2, [b.c EXCEPT !.crt = previousReturnType,
                                           !.scopes = define(stmt.name, f.ret, popScope(b.c.scopes))])))))

\* visit(FunDecl&) leaving the body's return type in the slot.
visitFunDecl_NoRestore(stmt, c) ==
    Bind(ResolveParams(stmt.params), LAMBDA p :
    IF p.err # "" THEN Result(stmt, throw(p.err, c))
    ELSE Bind(ResolveOptional(stmt.returnTypeAnnotation), LAMBDA rt :
    IF rt.err # "" THEN Result(stmt, throw(rt.err, c))
    ELSE Bind(createFunctionType(p.ret, rt.ret, c.types), LAMBDA f :
    LET s1 == [stmt EXCEPT !.type = f.ret]
        inner == DefineParams(stmt.params, p.ret, pushScope(define(stmt.name, f.ret, c.scopes)))
        previousReturnType == c.crt
    IN Bind(VisitStmt(stmt.body, [c EXCEPT !.types = f.types, !.scopes = inner, !.crt = rt.ret]),
            LAMBDA b :
            LET s2 == [s1 EXCEPT !.body = b.node]
            IN IF b.c.err # "" THEN Result(s2, b.c)
               ELSE Result(s2, [b.c EXCEPT !.scopes = popScope(b.c.scopes)])))))

visitFunDecl(stmt, c) ==
    Bind(ResolveParams(stmt.params), LAMBDA p :
    IF p.err # "" THEN Result(stmt, throw(p.err, c))
    ELSE Bind(ResolveOptional(stmt.returnTypeAnnotation), LAMBDA rt :
    IF rt.err # "" THEN Result(stmt, throw(rt.err, c))
    ELSE Bind(createFunctionType(p.ret, rt.ret, c.types), LAMBDA f :
    LET s1 == [stmt EXCEPT !.type = f.ret]
        inner == DefineParams(stmt.params, p.ret, pushScope(define(stmt.name, f.ret, c.scopes)))
        previousReturnType == c.crt
    IN Bind(VisitStmt(stmt.body, [c EXCEPT !.types = f.types, !.scopes = inner, !.crt = rt.ret]),
            LAMBDA b :
            LET s2 == [s1 EXCEPT !.body = b.node]
            IN IF b.c.err # "" THEN Result(s2, b.c)
               ELSE Result(s2, [b.c EXCEPT !.crt = previousReturnType,
                                           !.scopes = popScope(b.c.scopes)])))))

\* visit(VarDecl&) without the isSubtype test.
visitVarDecl_NoCheck(stmt, c) ==
    Bind(Visit(stmt.initExpr, c), LAMBDA i :
    LET s1 == [stmt EXCEPT !.initExpr = i.node]
    IN IF i.c.err # "" THEN Result(s1, i.c)
       ELSE IF stmt.typeAnnotation # nullopt
       THEN Bind(resolveTypeAnnotation(stmt.typeAnnotation), LAMBDA a :
            IF a.err # "" THEN Result(s1, throw(a.err, i.c))
            ELSE Result([s1 EXCEPT !.type = a.ret],
                        [i.c EXCEPT !.scopes = define(stmt.name, a.ret, i.c.scopes)]))
       ELSE Result([s1 EXCEPT !.type = i.node.type],
                   [i.c EXCEPT !.scopes = define(stmt.name, i.node.type, i.c.scopes)]))

\* visit(VarDecl&) binding the name, to Any, before it infers the initializer.
visitVarDecl_BindFirst(stmt, c) ==
    Bind(Visit(stmt.initExpr,
               [c EXCEPT !.scopes = define(stmt.name, anyType, c.scopes)]), LAMBDA i :
    LET s1 == [stmt EXCEPT !.initExpr = i.node]
    IN IF i.c.err # "" THEN Result(s1, i.c)
       ELSE IF stmt.typeAnnotation # nullopt
       THEN Bind(resolveTypeAnnotation(stmt.typeAnnotation), LAMBDA a :
            IF a.err # "" THEN Result(s1, throw(a.err, i.c))
            ELSE IF ~isSubtype(i.node.type, a.ret, i.c.types)
            THEN Result(s1, throw("Type mismatch: cannot assign to variable", i.c))
            ELSE Result([s1 EXCEPT !.type = a.ret],
                        [i.c EXCEPT !.scopes = define(stmt.name, a.ret, i.c.scopes)]))
       ELSE Result([s1 EXCEPT !.type = i.node.type],
                   [i.c EXCEPT !.scopes = define(stmt.name, i.node.type, i.c.scopes)]))

visitVarDecl(stmt, c) ==
    Bind(Visit(stmt.initExpr, c), LAMBDA i :
    LET s1 == [stmt EXCEPT !.initExpr = i.node]
    IN IF i.c.err # "" THEN Result(s1, i.c)
       ELSE IF stmt.typeAnnotation # nullopt
       THEN Bind(resolveTypeAnnotation(stmt.typeAnnotation), LAMBDA a :
            IF a.err # "" THEN Result(s1, throw(a.err, i.c))
            ELSE IF ~isSubtype(i.node.type, a.ret, i.c.types)
            THEN Result(s1, throw("Type mismatch: cannot assign to variable", i.c))
            ELSE Result([s1 EXCEPT !.type = a.ret],
                        [i.c EXCEPT !.scopes = define(stmt.name, a.ret, i.c.scopes)]))
       ELSE Result([s1 EXCEPT !.type = i.node.type],
                   [i.c EXCEPT !.scopes = define(stmt.name, i.node.type, i.c.scopes)]))

visitVarDecls(stmt, c) ==
    Bind(VisitStmts(stmt.decls, c), LAMBDA r :
        Result([stmt EXCEPT !.decls = r.nodes], r.c))

visitIfStmt(stmt, c) ==
    Bind(Visit(stmt.condition, c), LAMBDA k :
    LET s1 == [stmt EXCEPT !.condition = k.node]
    IN IF k.c.err # "" THEN Result(s1, k.c)
       ELSE Bind(VisitStmt(stmt.then_branch, k.c), LAMBDA t :
            LET s2 == [s1 EXCEPT !.then_branch = t.node]
            IN IF t.c.err # "" \/ stmt.else_branch = NoStmt THEN Result(s2, t.c)
               ELSE Bind(VisitStmt(stmt.else_branch, t.c), LAMBDA e :
                       Result([s2 EXCEPT !.else_branch = e.node], e.c))))

\* visit(ReturnStmt&) testing the first value of a return of any length.
visitReturnStmt_AnyCount(stmt, c) ==
    Bind(VisitAll(stmt.return_values, c), LAMBDA r :
    LET s1 == [stmt EXCEPT !.return_values = r.nodes]
    IN IF r.c.err # "" THEN Result(s1, r.c)
       ELSE IF /\ r.c.crt # nullptr
               /\ getKind(r.c.crt, r.c.types) # "Any"
               /\ Len(stmt.return_values) >= 1
               /\ ~isSubtype(r.nodes[1].type, r.c.crt, r.c.types)
       THEN Result(s1, throw("Type mismatch: function returns a type other than declared", r.c))
       ELSE Result(s1, r.c))

visitReturnStmt(stmt, c) ==
    Bind(VisitAll(stmt.return_values, c), LAMBDA r :
    LET s1 == [stmt EXCEPT !.return_values = r.nodes]
    IN IF r.c.err # "" THEN Result(s1, r.c)
       ELSE IF /\ r.c.crt # nullptr
               /\ getKind(r.c.crt, r.c.types) # "Any"
               /\ Len(stmt.return_values) = 1
               /\ ~isSubtype(r.nodes[1].type, r.c.crt, r.c.types)
       THEN Result(s1, throw("Type mismatch: function returns a type other than declared", r.c))
       ELSE Result(s1, r.c))

\* visit(BlockStmt&) that leaves its scope on the stack.
visitBlockStmt_NoPop(stmt, c) ==
    Bind(VisitStmts(stmt.statements, [c EXCEPT !.scopes = pushScope(c.scopes)]), LAMBDA r :
        Result([stmt EXCEPT !.statements = r.nodes], r.c))

visitBlockStmt(stmt, c) ==
    Bind(VisitStmts(stmt.statements, [c EXCEPT !.scopes = pushScope(c.scopes)]), LAMBDA r :
    LET s1 == [stmt EXCEPT !.statements = r.nodes]
    IN IF r.c.err # "" THEN Result(s1, r.c)
       ELSE Result(s1, [r.c EXCEPT !.scopes = popScope(r.c.scopes)]))

visitFunCallStmt(stmt, c) ==
    Bind(Visit(stmt.call, c), LAMBDA r :
        Result([stmt EXCEPT !.call = r.node], r.c))

\* visit(AssignStmt&) refusing a value that is no subtype of the target.
visitAssignStmt_Checked(stmt, c) ==
    Bind(Visit(stmt.left, c), LAMBDA l :
        IF l.c.err # "" THEN Result([stmt EXCEPT !.left = l.node], l.c)
        ELSE Bind(Visit(stmt.right, l.c), LAMBDA r :
                IF r.c.err = "" /\ ~isSubtype(r.node.type, l.node.type, r.c.types)
                THEN Result([stmt EXCEPT !.left = l.node, !.right = r.node],
                            throw("Type mismatch: cannot assign to variable", r.c))
                ELSE Result([stmt EXCEPT !.left = l.node, !.right = r.node], r.c)))

visitAssignStmt(stmt, c) ==
    Bind(Visit(stmt.left, c), LAMBDA l :
        IF l.c.err # "" THEN Result([stmt EXCEPT !.left = l.node], l.c)
        ELSE Bind(Visit(stmt.right, l.c), LAMBDA r :
                Result([stmt EXCEPT !.left = l.node, !.right = r.node], r.c)))

\* stmt.accept(*this): dispatch on the node's class.
VisitStmt(stmt, c) ==
    CASE stmt.kind = "FunDecl" -> visitFunDecl(stmt, c)
      [] stmt.kind = "VarDecl" -> visitVarDecl(stmt, c)
      [] stmt.kind = "VarDecls" -> visitVarDecls(stmt, c)
      [] stmt.kind = "IfStmt" -> visitIfStmt(stmt, c)
      [] stmt.kind = "ReturnStmt" -> visitReturnStmt(stmt, c)
      [] stmt.kind = "BlockStmt" -> visitBlockStmt(stmt, c)
      [] stmt.kind = "FunCallStmt" -> visitFunCallStmt(stmt, c)
      [] stmt.kind = "AssignStmt" -> visitAssignStmt(stmt, c)

-----------------------------------------------------------------------------
(* typeCheck: the loop over Program::statements, one statement a step.  A   *)
(* TypeCheckError leaves typeCheck, and the statements after it are never   *)
(* reached.                                                                 *)

\* TypeChecker::TypeChecker(): the global scope.
CheckerInit ==
    /\ types = <<>>
    /\ scopes = pushScope(<<>>)
    /\ currentFunctionReturnType = nullptr
    /\ program = <<>>
    /\ status = "ready"
    /\ error = ""
    /\ lastCall = NoCall

typeCheck(stmt) ==
    /\ status = "ready"
    /\ Len(program) < MaxStmts
    /\ \E r \in {VisitStmt(stmt, Checker(scopes, types, currentFunctionReturnType))} :
          /\ program' = Append(program, r.node)
          /\ types' = r.c.types
          /\ scopes' = r.c.scopes
          /\ currentFunctionReturnType' = r.c.crt
          /\ error' = r.c.err
          /\ status' = IF r.c.err = "" THEN "ready" ELSE "threw"
    /\ UNCHANGED lastCall

-----------------------------------------------------------------------------
(* Programs of declarations and calls *)

ReturnBody(e) == BlockStmt(<<ReturnStmt(<<e>>)>>)

ParamLists ==
    { <<>>,
      <<Parameter("a", "number")>>,
      <<Parameter("a", "number"), Parameter("b", "string")>>,
      <<Parameter("a", nullopt)>> }

CallFunDecls ==
    {FunDecl("f", ps, ReturnBody(NumberExpr), ann) : ps \in ParamLists, ann \in {nullopt, "number"}}
    \cup {FunDecl("f", ps, ReturnBody(VarExpr("y")), "number") : ps \in ParamLists}

CallVarDecls ==
    {VarDecl("x", e, ann) : e \in {NumberExpr, VarExpr("y")}, ann \in {nullopt, "number"}}
    \cup {VarDecl("x", FunCallExpr(VarExpr("f"), <<>>), "number"),
          VarDecl("x", FunCallExpr(VarExpr("f"), <<NumberExpr>>), nullopt)}

ArgExprs == {NumberExpr, StringExpr, VarExpr("y")}

Calls ==
    {FunCallExpr(VarExpr("f"), as) : as \in Lists(ArgExprs, 0, 2)}
    \cup {FunCallExpr(VarExpr(n), as) : n \in {"x", "g"}, as \in {<<>>, <<NumberExpr>>}}
    \cup {FunCallExpr(VarExpr("g"), <<NumberExpr, StringExpr>>)}

CallStmts == CallFunDecls \cup CallVarDecls \cup {FunCallStmt(k) : k \in Calls}

CallNext == \E stmt \in CallStmts : typeCheck(stmt)

CallSpec == CheckerInit /\ [][CallNext]_vars

-----------------------------------------------------------------------------
(* Programs of logical expressions *)

LogicOperands == {NumberExpr, StringExpr, VarExpr("a"), VarExpr("x")}

LogicStmts ==
    {VarDecl("a", BinOpExpr(l, op, r), nullopt) :
        l \in LogicOperands, r \in LogicOperands, op \in LogicalOps}

LogicNext == \E stmt \in LogicStmts : typeCheck(stmt)

LogicSpec == CheckerInit /\ [][LogicNext]_vars

-----------------------------------------------------------------------------
(* Programs of table literals *)

TableElements == {NumberExpr, StringExpr, VarExpr("x")}

ArrayParts ==
    Lists(TableElements, 1, 2)
    \cup {<<NumberExpr, NumberExpr, NumberExpr>>, <<NumberExpr, StringExpr, BooleanExpr>>}

MapParts ==
    {<<[key |-> "x", val |-> e]>> : e \in TableElements}
    \cup {<<[key |-> "y", val |-> BooleanExpr]>>}
    \cup {<<[key |-> "x", val |-> e], [key |-> "y", val |-> f]>> :
            e \in TableElements, f \in TableElements}

TableLiterals ==
    {TableExpr(<<>>, <<>>)}
    \cup {TableExpr(a, <<>>) : a \in ArrayParts}
    \cup {TableExpr(<<>>, m) : m \in MapParts}
    \cup {TableExpr(<<NumberExpr>>, <<[key |-> "x", val |-> e]>>) : e \in {NumberExpr, StringExpr}}

TableStmts == {VarDecl("x", e, nullopt) : e \in TableLiterals}

TableNext == \E stmt \in TableStmts : typeCheck(stmt)

TableSpec == CheckerInit /\ [][TableNext]_vars

-----------------------------------------------------------------------------
(* typeCheck on a whole Program: the loop over Program::statements from its *)
(* first statement to its last, or to the statement that throws.  The       *)
(* statements keep their places in the Program, visited or not.             *)

typeCheckProgram(prog) ==
    /\ status = "ready"
    /\ program = <<>>
    /\ \E r \in {VisitStmts(prog, Checker(scopes, types, currentFunctionReturnType))} :
          /\ program' = r.nodes
          /\ types' = r.c.types
          /\ scopes' = r.c.scopes
          /\ currentFunctionReturnType' = r.c.crt
          /\ error' = r.c.err
          /\ status' = IF r.c.err = "" THEN "ready" ELSE "threw"
    /\ lastCall' = [op |-> "typeCheck", args |-> prog, ret |-> nullptr]

FailStmts ==
    { VarDecl("a", NumberExpr, nullopt),
      VarDecl("b", BinOpExpr(StringExpr, "Plus", NumberExpr), nullopt),
      VarDecl("x", StringExpr, "number"),
      VarDecl("g", VarExpr("a"), "number"),
      FunCallStmt(FunCallExpr(VarExpr("a"), <<>>)),
      BlockStmt(<<VarDecl("y", NumberExpr, nullopt)>>),
      BlockStmt(<<VarDecl("y", UnaryOpExpr("Minus", StringExpr), nullopt),
                  VarDecl("f", NumberExpr, nullopt)>>) }

Programs == Lists(FailStmts, 1, MaxStmts + 1)

FailNext == \E prog \in Programs : typeCheckProgram(prog)

FailSpec == CheckerInit /\ [][FailNext]_vars

-----------------------------------------------------------------------------
(* Programs of arithmetic: x is declared over and over, y never is *)

ArithOperands == {NumberExpr, StringExpr, VarExpr("x"), VarExpr("y")}

ArithExprs ==
    {BinOpExpr(l, "Plus", r) : l \in ArithOperands, r \in ArithOperands}
    \cup {BinOpExpr(l, op, NumberExpr) : l \in ArithOperands, op \in ArithmeticOps}
    \cup {BinOpExpr(NumberExpr, op, r) : r \in ArithOperands, op \in ArithmeticOps}
    \cup {StringExpr, VarExpr("y"),
          BinOpExpr(NumberExpr, "And", StringExpr), BinOpExpr(NumberExpr, "Or", NumberExpr)}

ArithStmts == {VarDecl("x", e, nullopt) : e \in ArithExprs}

ArithNext == \E stmt \in ArithStmts : typeCheck(stmt)

ArithSpec == CheckerInit /\ [][ArithNext]_vars

-----------------------------------------------------------------------------
(* Programs of comparisons *)

CompareExprs ==
    {BinOpExpr(l, "Less", r) : l \in ArithOperands, r \in ArithOperands}
    \cup {BinOpExpr(NumberExpr, "Equal", r) : r \in ArithOperands}
    \cup {BinOpExpr(l, op, StringExpr) : l \in ArithOperands, op \in OrderingOps}
    \cup {BinOpExpr(l, "NotEqual", NumberExpr) : l \in ArithOperands}
    \cup {NumberExpr, StringExpr}

CompareStmts == {VarDecl("x", e, nullopt) : e \in CompareExprs}

CompareNext == \E stmt \in CompareStmts : typeCheck(stmt)

CompareSpec == CheckerInit /\ [][CompareNext]_vars

-----------------------------------------------------------------------------
(* Programs of variable declarations *)

Initializers ==
    {NumberExpr, StringExpr, BooleanExpr, NilExpr, VarExpr("x"), VarExpr("y"),
     BinOpExpr(NumberExpr, "Or", NumberExpr), BinOpExpr(StringExpr, "Plus", NumberExpr)}

DeclBlocks ==
    {BlockStmt(<<VarDecl("a", NumberExpr, ann), VarDecl("b", VarExpr("a"), nullopt)>>) :
        ann \in {nullopt, "number", "string"}}

DeclStmts ==
    {VarDecl("x", e, ann) : e \in Initializers, ann \in BasicAnnotations \cup {nullopt}}
    \cup DeclBlocks

DeclNext == \E stmt \in DeclStmts : typeCheck(stmt)

DeclSpec == CheckerInit /\ [][DeclNext]_vars

-----------------------------------------------------------------------------
(* Programs of returns, in functions and outside them *)

ReturnValues ==
    {<<>>, <<NumberExpr>>, <<StringExpr>>, <<VarExpr("y")>>,
     <<NumberExpr, StringExpr>>, <<StringExpr, StringExpr>>}

ReturnAnnotations == {nullopt, "number", "string"}

\* function g() return "s" end inside f, followed by f's own return.
NestedBody(vals) ==
    BlockStmt(<<FunDecl("g", <<>>, ReturnBody(StringExpr), nullopt), ReturnStmt(vals)>>)

ReturnStmts ==
    {ReturnStmt(vals) : vals \in ReturnValues}
    \cup {FunDecl("f", <<>>, BlockStmt(<<ReturnStmt(vals)>>), ann) :
            vals \in ReturnValues, ann \in ReturnAnnotations}
    \cup {FunDecl("f", <<>>, NestedBody(vals), "number") :
            vals \in {<<NumberExpr>>, <<StringExpr>>}}
    \cup {FunDecl("f", <<>>, ReturnBody(BinOpExpr(StringExpr, "Plus", NumberExpr)), "string")}

ReturnNext == \E stmt \in ReturnStmts : typeCheck(stmt)

ReturnSpec == CheckerInit /\ [][ReturnNext]_vars

-----------------------------------------------------------------------------
(* Programs of member accesses *)

Field(k, e) == [key |-> k, val |-> e]

MemberObjects ==
    {NumberExpr, StringExpr,
     BinOpExpr(NumberExpr, "Or", StringExpr),
     TableExpr(<<NumberExpr>>, <<>>),
     TableExpr(<<>>, <<>>),
     TableExpr(<<>>, <<Field("x", NumberExpr)>>),
     TableExpr(<<>>, <<Field("x", NumberExpr), Field("y", StringExpr)>>),
     TableExpr(<<>>, <<Field("y", TableExpr(<<>>, <<Field("x", NumberExpr)>>))>>)}

MemberAccesses ==
    {BinOpExpr(obj, "MemberAccess", VarExpr(f)) :
        obj \in {VarExpr("x"), VarExpr("a"), VarExpr("f"), StringExpr,
                 TableExpr(<<>>, <<Field("x", NumberExpr)>>)},
        f \in {"x", "y"}}

MemberStmts ==
    {VarDecl("x", e, nullopt) : e \in MemberObjects \cup MemberAccesses}
    \cup {FunDecl("f", <<>>, BlockStmt(<<>>), nullopt)}

MemberNext == \E stmt \in MemberStmts : typeCheck(stmt)

MemberSpec == CheckerInit /\ [][MemberNext]_vars

-----------------------------------------------------------------------------
(* Programs of index expressions *)

IndexObjects ==
    {NumberExpr, StringExpr,
     BinOpExpr(NumberExpr, "Or", StringExpr),
     TableExpr(<<NumberExpr>>, <<>>),
     TableExpr(<<StringExpr>>, <<>>),
     TableExpr(<<TableExpr(<<NumberExpr>>, <<>>)>>, <<>>),
     TableExpr(<<>>, <<Field("x", NumberExpr)>>)}

IndexExprs ==
    {IndexExpr(obj, idx) :
        obj \in {VarExpr("x"), VarExpr("a"), VarExpr("f"), NumberExpr},
        idx \in {NumberExpr, StringExpr, VarExpr("a"), VarExpr("x")}}

IndexStmts ==
    {VarDecl("x", e, nullopt) : e \in IndexObjects \cup IndexExprs}
    \cup {FunDecl("f", <<>>, BlockStmt(<<>>), nullopt)}

IndexNext == \E stmt \in IndexStmts : typeCheck(stmt)

IndexSpec == CheckerInit /\ [][IndexNext]_vars

-----------------------------------------------------------------------------
(* Programs of length expressions *)

LengthExprs ==
    {UnaryOpExpr("Length", obj) :
        obj \in {VarExpr("x"), VarExpr("a"), VarExpr("f"), NumberExpr, StringExpr, NilExpr,
                 TableExpr(<<NumberExpr, NumberExpr>>, <<>>),
                 TableExpr(<<>>, <<Field("x", NumberExpr)>>),
                 TableExpr(<<>>, <<>>)}}

LengthStmts ==
    {VarDecl("x", e, nullopt) : e \in IndexObjects \cup LengthExprs}
    \cup {FunDecl("f", <<>>, BlockStmt(<<>>), nullopt)}

LengthNext == \E stmt \in LengthStmts : typeCheck(stmt)

LengthSpec == CheckerInit /\ [][LengthNext]_vars

-----------------------------------------------------------------------------
(* Programs of annotated declarations *)

Annotations == BasicAnnotations \cup OtherAnnotations \cup {nullopt}

AnnotatedVarDecls ==
    {VarDecl("x", e, ann) :
        e \in {NumberExpr, StringExpr, VarExpr("y"), BinOpExpr(StringExpr, "Plus", NumberExpr)},
        ann \in Annotations}

AnnotatedFunDecls ==
    {FunDecl("f", <<Parameter("a", ann)>>, BlockStmt(<<>>), nullopt) : ann \in Annotations}
    \cup {FunDecl("f", <<>>, BlockStmt(<<>>), ann) : ann \in Annotations}
    \cup {FunDecl("f", <<Parameter("a", "number"), Parameter("b", ann)>>, BlockStmt(<<>>), "string") :
            ann \in {"string", "union"}}
    \cup {FunDecl("f", <<>>, BlockStmt(<<VarDecl("a", NumberExpr, ann)>>), nullopt) :
            ann \in {"number", "table"}}

AnnotatedStmts ==
    AnnotatedVarDecls \cup AnnotatedFunDecls
    \cup {IfStmt(BooleanExpr, BlockStmt(<<>>), BlockStmt(<<VarDecl("a", NumberExpr, ann)>>)) :
            ann \in {"number", "array"}}

AnnotNext == \E stmt \in AnnotatedStmts : typeCheck(stmt)

AnnotSpec == CheckerInit /\ [][AnnotNext]_vars

-----------------------------------------------------------------------------
(* Programs of functions that call themselves *)

SelfCalls ==
    {FunCallExpr(VarExpr("f"), as) :
        as \in {<<>>, <<NumberExpr>>, <<StringExpr>>, <<VarExpr("a")>>,
                <<VarExpr("a"), VarExpr("b")>>}}

FunStmts ==
    {FunDecl("f", ps, BlockStmt(<<VarDecl("x", k, nullopt)>>), ann) :
        ps \in ParamLists, k \in SelfCalls, ann \in {nullopt, "number"}}

FunNext == \E stmt \in FunStmts : typeCheck(stmt)

FunSpec == CheckerInit /\ [][FunNext]_vars

-----------------------------------------------------------------------------
(* Programs of nested functions *)

\* function f() -> outer  function g() -> inner return v end  return w  end
Nested(outer, inner, v, w) ==
    FunDecl("f", <<>>,
            BlockStmt(<<FunDecl("g", <<>>, BlockStmt(<<ReturnStmt(<<v>>)>>), inner),
                        ReturnStmt(<<w>>)>>),
            outer)

NestStmts ==
    {Nested(outer, inner, v, w) :
        outer \in ReturnAnnotations, inner \in ReturnAnnotations,
        v \in {NumberExpr, StringExpr}, w \in {NumberExpr, StringExpr}}
    \cup {ReturnStmt(<<v>>) : v \in {NumberExpr, StringExpr}}

NestNext == \E stmt \in NestStmts : typeCheck(stmt)

NestSpec == CheckerInit /\ [][NestNext]_vars

-----------------------------------------------------------------------------
(* Programs of assignments *)

AssignTargets == {VarExpr("x"), IndexExpr(VarExpr("x"), NumberExpr)}

AssignValues ==
    {NumberExpr, StringExpr, NilExpr, VarExpr("x"),
     BinOpExpr(StringExpr, "Plus", NumberExpr)}

AssignStmts ==
    {VarDecl("x", e, ann) : e \in {NumberExpr, StringExpr},
                            ann \in {nullopt, "number", "string"}}
    \cup {AssignStmt(l, r) : l \in AssignTargets, r \in AssignValues}

AssignNext == \E stmt \in AssignStmts : typeCheck(stmt)

AssignSpec == CheckerInit /\ [][AssignNext]_vars

-----------------------------------------------------------------------------
(* Programs of blocks, if statements and function bodies, in the shapes the *)
(* parser builds: a branch of an if is a block or, for elseif, an if; the   *)
(* body of a function is a block.                                           *)

ScopeValues == {NumberExpr, StringExpr, BinOpExpr(StringExpr, "Plus", NumberExpr)}

ScopeBlocks ==
    {BlockStmt(<<VarDecl(n, e, nullopt)>>) : n \in {"a", "x"}, e \in ScopeValues}
    \cup {BlockStmt(<<VarDecl("a", NumberExpr, nullopt),
                      BlockStmt(<<VarDecl("b", e, nullopt)>>)>>) : e \in ScopeValues}

ScopeElses ==
    {NoStmt, BlockStmt(<<VarDecl("b", StringExpr, nullopt)>>),
     IfStmt(BooleanExpr, BlockStmt(<<VarDecl("c", NumberExpr, nullopt)>>), NoStmt),
     IfStmt(BooleanExpr, BlockStmt(<<VarDecl("c", NumberExpr, nullopt)>>),
            BlockStmt(<<VarDecl("b", StringExpr, nullopt)>>))}

ScopeStmts ==
    ScopeBlocks
    \cup {IfStmt(BooleanExpr, b, e) :
            b \in {BlockStmt(<<VarDecl("a", v, nullopt)>>) : v \in ScopeValues},
            e \in ScopeElses}
    \cup {FunDecl("f", <<Parameter("p", nullopt)>>, b, nullopt) : b \in ScopeBlocks}
    \cup {VarDecl("x", e, nullopt) : e \in {NumberExpr, StringExpr}}

ScopeNext == \E stmt \in ScopeStmts : typeCheck(stmt)

ScopeSpec == CheckerInit /\ [][ScopeNext]_vars

-----------------------------------------------------------------------------
(* Programs that declare x more than once *)

OrderValues == {NumberExpr, StringExpr, BooleanExpr, VarExpr("x")}

\* do local x = e1  local x [: number] = e2  local y = x end
OrderBlocks ==
    {BlockStmt(<<VarDecl("x", e1, nullopt), VarDecl("x", e2, ann),
                 VarDecl("y", VarExpr("x"), nullopt)>>) :
        e1 \in OrderValues, e2 \in OrderValues, ann \in {nullopt, "number"}}

OrderStmts ==
    {VarDecl("x", e, nullopt) : e \in {NumberExpr, StringExpr, VarExpr("x")}}
    \cup OrderBlocks

OrderNext == \E stmt \in OrderStmts : typeCheck(stmt)

OrderSpec == CheckerInit /\ [][OrderNext]_vars

-----------------------------------------------------------------------------
(* Claims about the type relations and the factory, under TypeSpec *)

Complex(T) == (NumBasic + 1)..(NumBasic + Len(T))

Unions(T) == {t \in Complex(T) : getKind(t, T) = "Union"}

\* C1: every type that has been constructed is the same type as itself and a
\* subtype of itself.
C1_Reflexive ==
    \A t \in Refs(types) : isSameType(t, t, types) /\ isSubtype(t, t, types)

\* A Union with a complex member has been built, and is a subtype of itself.
C1_Witness ==
    \E u \in Unions(types) :
        /\ \E i \in 1..Len(Deref(u, types).types) : Deref(u, types).types[i] \in Complex(types)
        /\ isSubtype(u, u, types)

\* C2: every constructed type is a subtype of Any, and Unknown is a subtype of
\* every constructed type.
C2_AnyTopUnknownBottom ==
    \A t \in Refs(types) :
        isSubtype(t, anyType, types) /\ isSubtype(unknownType, t, types)

\* A two-member Union and a Function exist, below Any and above Unknown.
C2_Witness ==
    /\ \E u \in Unions(types) :
        /\ Len(Deref(u, types).types) = 2
        /\ isSubtype(u, anyType, types)
        /\ isSubtype(unknownType, u, types)
    /\ \E f \in Complex(types) : getKind(f, types) = "Function"

\* C3: every Union in the arena has at least two members, none of them a
\* Union, and no two of them the same type.
C3_UnionInvariant ==
    \A u \in Unions(types) :
        LET ms == Deref(u, types).types
        IN /\ Len(ms) >= 2
           /\ \A i \in 1..Len(ms) : getKind(ms[i], types) # "Union"
           /\ \A i, j \in 1..Len(ms) : i # j => ~isSameType(ms[i], ms[j], types)

\* C4: createUnionType on a list that holds Any, at any position, returns the
\* Any singleton.
C4_AnyAbsorbs ==
    (/\ lastCall.op = "createUnionType"
     /\ \E i \in 1..Len(lastCall.args) : lastCall.args[i] = anyType)
        => lastCall.ret = anyType

\* createUnionType was given Any after a member that is not Any.
C4_Witness ==
    /\ lastCall.op = "createUnionType"
    /\ Len(lastCall.args) >= 2
    /\ lastCall.args[1] = numberType
    /\ lastCall.args[Len(lastCall.args)] = anyType
    /\ lastCall.ret = anyType

-----------------------------------------------------------------------------
(* Claims about the Environment, under EnvSpec *)

\* The live scopes that define the name, by their position in the stack.
Defining(name, S) == {i \in 1..Len(S) : MapHas(S[i], name)}

\* The binding of the name in the innermost live scope that defines it.
Innermost(name, S) ==
    IF Defining(name, S) = {} THEN nullptr
    ELSE LET i == CHOOSE k \in Defining(name, S) : \A l \in Defining(name, S) : l <= k
         IN MapGet(S[i], name)

\* C9: lookup returns the binding of the innermost live scope that defines the
\* name, and null when none does; popping a scope leaves lookup with what the
\* scopes below it bind, whatever was defined in the popped scope, and a define
\* in an inner scope changes no binding of the scopes below it.
C9_Lookup ==
    /\ [](/\ \A n \in EnvNames : lookup(n, scopes) = Innermost(n, scopes)
          /\ lastCall.op = "lookup" => lastCall.ret = Innermost(lastCall.args[1], scopes))
    /\ [][/\ (lastCall'.op = "popScope" /\ scopes # <<>>) =>
                \A n \in EnvNames : lookup(n, scopes') = Innermost(n, Front(scopes))
          /\ (lastCall'.op = "define" /\ Len(scopes) >= 2) =>
                \A n \in EnvNames : Innermost(n, Front(scopes')) = Innermost(n, Front(scopes))]_vars

\* x is bound to different types in two live scopes, and lookup has returned
\* the binding of the inner one.
C9_Witness ==
    /\ lastCall.op = "lookup"
    /\ lastCall.args[1] = "x"
    /\ Len(scopes) = 2
    /\ MapHas(scopes[1], "x") /\ MapHas(scopes[2], "x")
    /\ MapGet(scopes[1], "x") # MapGet(scopes[2], "x")
    /\ lastCall.ret = MapGet(scopes[2], "x")

-----------------------------------------------------------------------------
(* Claims about unifyTypes, under UnionSpec *)

\* The element sequences of two or three entries with the same elements as ts.
Rearranged(ts) ==
    LET S == {ts[i] : i \in 1..Len(ts)}
    IN {us \in Pairs(S) \cup Triples(S) : {us[i] : i \in 1..Len(us)} = S}

-----------------------------------------------------------------------------
(* Claims about the type checker, under CallSpec and LogicSpec *)

\* Every Expr node of the tree below an Expr, the node itself included.
RECURSIVE ExprsOf(_)
ExprsOf(e) ==
    {e} \cup
    CASE e.kind = "TableExpr" ->
            UNION ({ExprsOf(e.arrayPart[i]) : i \in 1..Len(e.arrayPart)}
                   \cup {ExprsOf(e.mapPart[i].val) : i \in 1..Len(e.mapPart)})
      [] e.kind = "UnaryOpExpr" -> ExprsOf(e.right)
      [] e.kind = "BinOpExpr" -> ExprsOf(e.left) \cup ExprsOf(e.right)
      [] e.kind = "IndexExpr" -> ExprsOf(e.object) \cup ExprsOf(e.index)
      [] e.kind = "FunCallExpr" ->
            ExprsOf(e.callee) \cup UNION {ExprsOf(e.args[i]) : i \in 1..Len(e.args)}
      [] OTHER -> {}

\* Every Expr node of the tree below a Stmt.
RECURSIVE StmtExprs(_)
StmtExprs(s) ==
    CASE s.kind = "FunDecl" -> StmtExprs(s.body)
      [] s.kind = "VarDecl" -> ExprsOf(s.initExpr)
      [] s.kind = "VarDecls" -> UNION {StmtExprs(s.decls[i]) : i \in 1..Len(s.decls)}
      [] s.kind = "IfStmt" ->
            ExprsOf(s.condition) \cup StmtExprs(s.then_branch) \cup StmtExprs(s.else_branch)
      [] s.kind = "ReturnStmt" ->
            UNION {ExprsOf(s.return_values[i]) : i \in 1..Len(s.return_values)}
      [] s.kind = "BlockStmt" -> UNION {StmtExprs(s.statements[i]) : i \in 1..Len(s.statements)}
      [] s.kind = "FunCallStmt" -> ExprsOf(s.call)
      [] s.kind = "AssignStmt" -> ExprsOf(s.left) \cup ExprsOf(s.right)
      [] OTHER -> {}

\* C6: while typeCheck has raised no error, every Expr node of the statements
\* it has checked has a Type and has been visited exactly once.
C6_AllTypedVisitedOnce ==
    status = "ready" =>
        \A i \in 1..Len(program) :
            \A e \in StmtExprs(program[i]) : e.type # nullptr /\ e.visits = 1

\* The statement typeCheck handled last.
LastStmt == program[Len(program)]

HasCall(s) ==
    \/ s.kind = "FunCallStmt"
    \/ s.kind = "VarDecl" /\ s.initExpr.kind = "FunCallExpr"

CallOf(s) == IF s.kind = "FunCallStmt" THEN s.call ELSE s.initExpr

Primitives == {numberType, stringType, booleanType, nilType}

NotAFunction == "Type error: trying to call a non-function type"
WrongArity == "Type error: function called with incorrect number of arguments"
ArgumentMismatch == "Type error: function argument type mismatch"
CannotAssign == "Type mismatch: cannot assign to variable"
WrongReturn == "Type mismatch: function returns a type other than declared"

\* The call's arguments have all been visited, every one of them is Any or a
\* subtype of its parameter, and one that is Any meets a primitive parameter.
AnyArgument(k) ==
    /\ getKind(k.callee.type, types) = "Function"
    /\ Len(Deref(k.callee.type, types).paramTypes) = Len(k.args)
    /\ \A i \in 1..Len(k.args) :
            /\ k.args[i].type # nullptr
            /\ \/ k.args[i].type = anyType
               \/ isSubtype(k.args[i].type, Deref(k.callee.type, types).paramTypes[i], types)
    /\ \E i \in 1..Len(k.args) :
            /\ k.args[i].type = anyType
            /\ Deref(k.callee.type, types).paramTypes[i] \in Primitives

\* The function's body is one return of one value, whose type is Any.
ReturnsAny(s) ==
    /\ s.body.kind = "BlockStmt"
    /\ Len(s.body.statements) = 1
    /\ s.body.statements[1].kind = "ReturnStmt"
    /\ Len(s.body.statements[1].return_values) = 1
    /\ s.body.statements[1].return_values[1].type = anyType

\* C7: an expression of type Any is not rejected as the argument of a
\* parameter annotated with a primitive type, as the initializer of a variable
\* annotated with a primitive type, or as the value returned from a function
\* whose return annotation is a primitive type.
C7_AnyNeverRejected ==
    program # <<>> =>
        /\ (HasCall(LastStmt) /\ AnyArgument(CallOf(LastStmt))) => error # ArgumentMismatch
        /\ (/\ LastStmt.kind = "VarDecl"
            /\ LastStmt.typeAnnotation \in BasicAnnotations
            /\ LastStmt.initExpr.type = anyType) => error # CannotAssign
        /\ (/\ LastStmt.kind = "FunDecl"
            /\ LastStmt.returnTypeAnnotation \in BasicAnnotations
            /\ ReturnsAny(LastStmt)) => error # WrongReturn

\* The call's arguments all are subtypes of the parameters of the Function k calls.
ArgumentsFit(k) ==
    \A i \in 1..Len(k.args) :
        isSubtype(k.args[i].type, Deref(k.callee.type, types).paramTypes[i], types)

\* C8: a call through a callee of type Any has type Any; a callee of another
\* type that is not a Function, a number of arguments other than the number
\* of parameters, and an argument that is not a subtype of its parameter each
\* raise their TypeCheckError; a call that passes all three has the return
\* type of the Function.
C8_CallChecking ==
    (program # <<>> /\ HasCall(LastStmt)) =>
        \E k \in {CallOf(LastStmt)} : \E kind \in {getKind(k.callee.type, types)} :
            /\ kind = "Any" =>
                    /\ k.type = anyType
                    /\ error \notin {NotAFunction, WrongArity, ArgumentMismatch}
            /\ kind \notin {"Any", "Function"} => error = NotAFunction /\ k.type = nullptr
            /\ kind = "Function" =>
                    IF Len(Deref(k.callee.type, types).paramTypes) # Len(k.args)
                    THEN error = WrongArity /\ k.type = nullptr
                    ELSE IF ~ArgumentsFit(k)
                    THEN error = ArgumentMismatch /\ k.type = nullptr
                    ELSE /\ k.type = Deref(k.callee.type, types).returnType
                         /\ error \notin {NotAFunction, WrongArity, ArgumentMismatch}

\* A Function of two annotated parameters declared to return a number has
\* been called with a number and a string, and the call has type Number.
C8_Witness ==
    /\ program # <<>>
    /\ LastStmt.kind = "FunCallStmt"
    /\ getKind(LastStmt.call.callee.type, types) = "Function"
    /\ Len(LastStmt.call.args) = 2
    /\ Deref(LastStmt.call.callee.type, types).paramTypes = <<numberType, stringType>>
    /\ LastStmt.call.args[1].type = numberType
    /\ LastStmt.call.args[2].type = stringType
    /\ LastStmt.call.type = numberType
    /\ error = ""

\* C10: the type of a logical `and`/`or` is the type unifyTypes gives for the
\* types of its two operands: the operand type when the two are the same
\* type, Any when one of them is Any, otherwise a Union of two members.
C10_LogicalUnify ==
    \A n \in 1..Len(program) :
        \E e \in {program[n].initExpr} :
            (e.kind = "BinOpExpr" /\ e.op \in LogicalOps /\ e.type # nullptr) =>
                /\ \E u \in {unifyTypes(<<e.left.type, e.right.type>>, types)} :
                        /\ isSameType(e.type, u.ret, u.types)
                        /\ isSameType(u.ret, e.type, u.types)
                /\ isSameType(e.left.type, e.right.type, types) =>
                        isSameType(e.type, e.left.type, types)
                /\ (e.left.type = anyType \/ e.right.type = anyType) => e.type = anyType
                /\ (/\ ~isSameType(e.left.type, e.right.type, types)
                    /\ e.left.type # anyType /\ e.right.type # anyType) =>
                        /\ getKind(e.type, types) = "Union"
                        /\ Len(Deref(e.type, types).types) = 2

-----------------------------------------------------------------------------
(* Claims about Table types, under TypeSpec *)

Tables(T) == {t \in Complex(T) : getKind(t, T) = "Table"}

FieldNames(t, T) == {Deref(t, T).fields[i].key : i \in 1..Len(Deref(t, T).fields)}

\* C11: two Table types are the same type exactly when they have the same
\* number of fields, the same field names, and under every name value types
\* that are the same type; {x: Number} and {x: Number, y: String} are not the
\* same type in either order; and a Table made from the same entries put in
\* another order is the same type, and the same type as the same Tables.
C11_TableEquality ==
    /\ \A a, b \in Tables(types) :
            isSameType(a, b, types) <=>
                /\ Len(Deref(a, types).fields) = Len(Deref(b, types).fields)
                /\ FieldNames(a, types) = FieldNames(b, types)
                /\ \A k \in FieldNames(a, types) :
                        isSameType(MapGet(Deref(a, types).fields, k),
                                   MapGet(Deref(b, types).fields, k), types)
    /\ \A a, b \in Tables(types) :
            (/\ Deref(a, types).fields = <<[key |-> "x", val |-> numberType]>>
             /\ Deref(b, types).fields = <<[key |-> "x", val |-> numberType],
                                           [key |-> "y", val |-> stringType]>>)
                => ~isSameType(a, b, types) /\ ~isSameType(b, a, types)
    /\ (lastCall.op = "createTableType" /\ Len(lastCall.args) = 2) =>
            \E u \in {createTableType(
                        FieldsFrom(<<lastCall.args[2], lastCall.args[1]>>, <<>>), types)} :
                /\ isSameType(u.ret, lastCall.ret, u.types)
                /\ isSameType(lastCall.ret, u.ret, u.types)
                /\ \A t \in Tables(types) :
                        /\ isSameType(t, u.ret, u.types) <=> isSameType(t, lastCall.ret, u.types)
                        /\ isSameType(u.ret, t, u.types) <=> isSameType(lastCall.ret, t, u.types)

\* {x: Number} exists, and {x: Number, y: String} has just been made from
\* its entry y put before its entry x.
C11_Witness ==
    /\ lastCall.op = "createTableType"
    /\ lastCall.args = <<[key |-> "y", val |-> stringType], [key |-> "x", val |-> numberType]>>
    /\ \E a \in Tables(types) : Deref(a, types).fields = <<[key |-> "x", val |-> numberType]>>
    /\ ~isSameType(lastCall.ret, NumBasic + 1, types)

-----------------------------------------------------------------------------
(* Claims about table literals, under TableSpec *)

MixedLiteral == "Type error: mixed table literals are not allowed"

\* The statements typeCheck has been through, with their positions.
Checked == 1..Len(program)

KeysOf(mapPart) == {mapPart[j].key : j \in 1..Len(mapPart)}

\* C12: a table literal with both positional and keyed entries raises a
\* TypeCheckError; one with only positional entries has the type Array of the
\* unification of its element types ({1, 2, 3} is Array(Number), {1, "a", true}
\* is Array(Union(Number, String, Boolean))); one with only keyed entries has a
\* Table type with exactly the literal's field names, each with the type
\* inferred for its value; the empty literal has the empty Table type.
C12_TableLiteral ==
    \A i \in Checked :
        LET e == program[i].initExpr
            mixed == e.arrayPart # <<>> /\ e.mapPart # <<>>
        IN /\ mixed => /\ i = Len(program)
                       /\ status = "threw"
                       /\ error = MixedLiteral
                       /\ e.type = nullptr
           /\ ~mixed => ~(i = Len(program) /\ status = "threw")
           /\ (e.arrayPart # <<>> /\ e.mapPart = <<>>) =>
                /\ getKind(e.type, types) = "Array"
                /\ \A j \in 1..Len(e.arrayPart) : e.arrayPart[j].type # nullptr
                /\ \E u \in {unifyTypes(TypesOf(e.arrayPart), types)} :
                        /\ isSameType(Deref(e.type, types).elementType, u.ret, u.types)
                        /\ isSameType(u.ret, Deref(e.type, types).elementType, u.types)
                /\ (\A j \in 1..Len(e.arrayPart) : e.arrayPart[j].kind = "NumberExpr")
                        => Deref(e.type, types).elementType = numberType
                /\ [j \in 1..Len(e.arrayPart) |-> e.arrayPart[j].kind]
                            = <<"NumberExpr", "StringExpr", "BooleanExpr">>
                        => /\ getKind(Deref(e.type, types).elementType, types) = "Union"
                           /\ Deref(Deref(e.type, types).elementType, types).types
                                    = <<numberType, stringType, booleanType>>
           /\ (e.arrayPart = <<>> /\ e.mapPart # <<>>) =>
                /\ getKind(e.type, types) = "Table"
                /\ FieldNames(e.type, types) = KeysOf(e.mapPart)
                /\ Len(Deref(e.type, types).fields) = Len(e.mapPart)
                /\ \A j \in 1..Len(e.mapPart) :
                        /\ e.mapPart[j].val.type # nullptr
                        /\ MapGet(Deref(e.type, types).fields, e.mapPart[j].key)
                                = e.mapPart[j].val.type
           /\ (e.arrayPart = <<>> /\ e.mapPart = <<>>) =>
                /\ getKind(e.type, types) = "Table"
                /\ Deref(e.type, types).fields = <<>>

\* {1, "a", true} has been given an Array type, and after it a literal with an
\* entry of each kind has been rejected.
C12_Witness ==
    /\ Len(program) = 2
    /\ status = "threw"
    /\ [j \in 1..Len(program[1].initExpr.arrayPart) |-> program[1].initExpr.arrayPart[j].kind]
            = <<"NumberExpr", "StringExpr", "BooleanExpr">>
    /\ getKind(program[1].initExpr.type, types) = "Array"

-----------------------------------------------------------------------------
(* Claims about a whole Program, under FailSpec *)

\* typeCheck on the first k statements of a Program, by a new TypeChecker.
RunPrefix(prog, k) == VisitStmts(SubSeq(prog, 1, k), Checker(pushScope(<<>>), <<>>, nullptr))

\* The position of the first statement that throws, 0 when none does.
FirstError(prog) ==
    IF \E k \in 1..Len(prog) : RunPrefix(prog, k).c.err # ""
    THEN CHOOSE k \in 1..Len(prog) :
            /\ RunPrefix(prog, k).c.err # ""
            /\ \A j \in 1..(k - 1) : RunPrefix(prog, j).c.err = ""
    ELSE 0

Untouched(s) == \A e \in StmtExprs(s) : e.type = nullptr /\ e.visits = 0

\* C13: the first statement, in order, that breaks a rule ends typeCheck with
\* its TypeCheckError; that error is the one reported; no statement after it
\* is visited: the type slots of the statements after it stay unset and they
\* add no binding, inside a block as well as in the Program.
C13_FailFast ==
    lastCall.op = "typeCheck" =>
        \E first \in {FirstError(lastCall.args)} :
            /\ Len(program) = Len(lastCall.args)
            /\ first = 0 => status = "ready" /\ error = ""
            /\ first # 0 =>
                \E r \in {RunPrefix(lastCall.args, first)} :
                    /\ status = "threw"
                    /\ error = r.c.err
                    /\ scopes = r.c.scopes
                    /\ types = r.c.types
                    /\ \A j \in (first + 1)..Len(program) :
                            /\ program[j] = lastCall.args[j]
                            /\ Untouched(program[j])
                            /\ (/\ program[j].kind = "VarDecl"
                                /\ \A i \in 1..first : lastCall.args[i].kind = "VarDecl"
                                        => lastCall.args[i].name # program[j].name)
                                    => lookup(program[j].name, scopes) = nullptr
                    /\ program[first].kind = "BlockStmt" =>
                            /\ \A n \in 2..Len(program[first].statements) :
                                    Untouched(program[first].statements[n])
                            /\ lookup("f", scopes) = nullptr

\* A block's first declaration has thrown after one statement was checked,
\* with a declaration following it in the block and a statement following the
\* block.
C13_Witness ==
    /\ lastCall.op = "typeCheck"
    /\ Len(program) = 3
    /\ status = "threw"
    /\ program[1].kind = "VarDecl" /\ program[1].type # nullptr
    /\ program[2].kind = "BlockStmt" /\ Len(program[2].statements) = 2
    /\ program[2].statements[1].initExpr.visits = 1
    /\ program[3].kind = "VarDecl" /\ program[3].name = "g"

-----------------------------------------------------------------------------
(* Claims about names and arithmetic, under ArithSpec *)

\* The VarExpr nodes of a checked statement that a visitor entered.
References(s) == {e \in StmtExprs(s) : e.kind = "VarExpr" /\ e.visits > 0}

\* No statement before the i-th declares the name.
Unbound(name, i) == \A j \in 1..(i - 1) : program[j].name # name

\* C14: a reference to a name that no scope binds raises nothing and has the
\* type Any; x + 2 with x unbound has the type Number.
C14_UnboundIsAny ==
    /\ \A i \in Checked : \A e \in References(program[i]) :
            Unbound(e.name, i) => e.type = anyType
    /\ \A n \in {"x", "y"} :
            lookup(n, scopes) = nullptr =>
                \E r \in {Visit(VarExpr(n), Checker(scopes, types, currentFunctionReturnType))} :
                    r.c.err = "" /\ r.node.type = anyType
    /\ \A i \in Checked :
            (/\ program[i].initExpr.kind = "BinOpExpr"
             /\ program[i].initExpr.op = "Plus"
             /\ program[i].initExpr.left.kind = "VarExpr"
             /\ Unbound(program[i].initExpr.left.name, i)
             /\ program[i].initExpr.right.kind = "NumberExpr")
                => /\ program[i].initExpr.type = numberType
                   /\ program[i].type = numberType
                   /\ ~(i = Len(program) /\ status = "threw")

\* local x = x + 2 has been checked by a new TypeChecker.
C14_Witness ==
    /\ Len(program) = 1
    /\ status = "ready"
    /\ program[1].initExpr.kind = "BinOpExpr"
    /\ program[1].initExpr.op = "Plus"
    /\ program[1].initExpr.left.kind = "VarExpr"
    /\ program[1].initExpr.left.name = "x"
    /\ program[1].initExpr.left.type = anyType
    /\ program[1].initExpr.right.kind = "NumberExpr"

ArithmeticError == "Type error: arithmetic operations require number types"

NumberOrAny == {numberType, anyType}

\* C19: an arithmetic expression (+, -, *, /) type-checks exactly when each
\* operand's type is Number or Any, and its type is then Number, also when
\* both are Any; with an operand of any other type (String, a union that
\* contains Number, Unknown) it raises a TypeCheckError.
C19_Arithmetic ==
    /\ \A i \in Checked :
            LET e == program[i].initExpr
            IN (e.kind = "BinOpExpr" /\ e.op \in ArithmeticOps) =>
                /\ e.left.type # nullptr /\ e.right.type # nullptr
                /\ IF e.left.type \in NumberOrAny /\ e.right.type \in NumberOrAny
                   THEN e.type = numberType /\ ~(i = Len(program) /\ status = "threw")
                   ELSE /\ e.type = nullptr
                        /\ i = Len(program)
                        /\ status = "threw"
                        /\ error = ArithmeticError
    /\ \A lt \in Refs(types), rt \in Refs(types), op \in ArithmeticOps :
            \E r \in {BinOpResult(BinOpExpr(NumberExpr, op, NumberExpr), lt,
                                  [NumberExpr EXCEPT !.type = rt],
                                  Checker(scopes, types, currentFunctionReturnType))} :
                IF lt \in NumberOrAny /\ rt \in NumberOrAny
                THEN r.c.err = "" /\ r.node.type = numberType
                ELSE r.c.err = ArithmeticError /\ r.node.type = nullptr

\* A logical expression has bound x to a union that contains Number, and then
\* an arithmetic expression of x and a number has been rejected.
C19_Witness ==
    /\ Len(program) = 2
    /\ status = "threw"
    /\ error = ArithmeticError
    /\ program[1].initExpr.kind = "BinOpExpr"
    /\ program[1].initExpr.op \in LogicalOps
    /\ getKind(program[2].initExpr.left.type, types) = "Union"
    /\ program[2].initExpr.right.type = numberType
    /\ \E t \in Refs(types) : getKind(t, types) = "Union" /\ numberType \in
            {Deref(t, types).types[k] : k \in 1..Len(Deref(t, types).types)}

-----------------------------------------------------------------------------
(* Claims about comparisons, under CompareSpec *)

ComparisonError == "Type error: comparison requires number or string types"

StringOrAny == {stringType, anyType}

Comparable(lt, rt) ==
    \/ lt \in NumberOrAny /\ rt \in NumberOrAny
    \/ lt \in StringOrAny /\ rt \in StringOrAny

\* C20: an ordering comparison (<, >, <=, >=) type-checks exactly when both
\* operand types are among Number and Any or both are among String and Any,
\* and its type is then Boolean; Number against String raises a
\* TypeCheckError; an equality comparison (==, ~=) raises for no operand
\* types and its type is always Boolean.
C20_Comparison ==
    /\ \A i \in Checked :
            LET e == program[i].initExpr
            IN /\ (e.kind = "BinOpExpr" /\ e.op \in OrderingOps) =>
                    /\ e.left.type # nullptr /\ e.right.type # nullptr
                    /\ IF Comparable(e.left.type, e.right.type)
                       THEN e.type = booleanType /\ ~(i = Len(program) /\ status = "threw")
                       ELSE /\ e.type = nullptr
                            /\ i = Len(program)
                            /\ status = "threw"
                            /\ error = ComparisonError
               /\ (e.kind = "BinOpExpr" /\ e.op \in EqualityOps) =>
                    /\ e.left.type # nullptr /\ e.right.type # nullptr
                    /\ e.type = booleanType
                    /\ ~(i = Len(program) /\ status = "threw")
    /\ \A lt \in Refs(types), rt \in Refs(types), op \in OrderingOps \cup EqualityOps :
            \E r \in {BinOpResult(BinOpExpr(NumberExpr, op, NumberExpr), lt,
                                  [NumberExpr EXCEPT !.type = rt],
                                  Checker(scopes, types, currentFunctionReturnType))} :
                /\ (op \in EqualityOps \/ Comparable(lt, rt))
                        => r.c.err = "" /\ r.node.type = booleanType
                /\ (op \in OrderingOps /\ ~Comparable(lt, rt))
                        => r.c.err = ComparisonError /\ r.node.type = nullptr
                /\ (op \in OrderingOps /\ {lt, rt} = {numberType, stringType})
                        => r.c.err = ComparisonError

\* A number and a string have been compared for equality, and then an
\* ordering comparison of a number and a string has been rejected.
C20_Witness ==
    /\ Len(program) = 2
    /\ status = "threw"
    /\ error = ComparisonError
    /\ program[1].initExpr.kind = "BinOpExpr"
    /\ program[1].initExpr.op \in EqualityOps
    /\ {program[1].initExpr.left.type, program[1].initExpr.right.type} = {numberType, stringType}
    /\ program[1].initExpr.type = booleanType
    /\ program[2].initExpr.op \in OrderingOps
    /\ {program[2].initExpr.left.type, program[2].initExpr.right.type} = {numberType, stringType}

-----------------------------------------------------------------------------
(* Claims about variable declarations, under DeclSpec *)

\* typeCheck threw in the i-th statement.
ThrewAt(i) == i = Len(program) /\ status = "threw"

\* The binding of x that the statements before the i-th left behind.
BoundBefore(i) ==
    IF \E j \in 1..(i - 1) : program[j].kind = "VarDecl"
    THEN program[CHOOSE j \in 1..(i - 1) :
                    /\ program[j].kind = "VarDecl"
                    /\ \A k \in (j + 1)..(i - 1) : program[k].kind # "VarDecl"].type
    ELSE nullptr

\* C15: a variable declaration infers its initializer first; with a primitive
\* annotation it raises a TypeCheckError unless the initializer's type is a
\* subtype of the annotated type, and otherwise binds the name in the current
\* scope to the annotated type; with no annotation it binds the name to the
\* initializer's type.
C15_VarDecl ==
    /\ status = "ready" => Len(scopes) = 1
    /\ \A i \in Checked : program[i].kind = "VarDecl" =>
            LET d == program[i]
                last == \A j \in (i + 1)..Len(program) : program[j].kind # "VarDecl"
            IN /\ d.initExpr.visits = 1
               /\ d.initExpr.type = nullptr =>
                    /\ ThrewAt(i) /\ error = ArithmeticError
                    /\ d.type = nullptr
                    /\ lookup("x", scopes) = BoundBefore(i)
               /\ (d.initExpr.type # nullptr /\ d.typeAnnotation = nullopt) =>
                    /\ ~ThrewAt(i)
                    /\ d.type = d.initExpr.type
                    /\ last => lookup("x", scopes) = d.initExpr.type
               /\ (d.initExpr.type # nullptr /\ d.typeAnnotation \in BasicAnnotations) =>
                    \E a \in {resolveTypeAnnotation(d.typeAnnotation).ret} :
                        IF isSubtype(d.initExpr.type, a, types)
                        THEN /\ ~ThrewAt(i)
                             /\ d.type = a
                             /\ last => lookup("x", scopes) = a
                        ELSE /\ ThrewAt(i) /\ error = CannotAssign
                             /\ d.type = nullptr
                             /\ lookup("x", scopes) = BoundBefore(i)
    /\ \A i \in Checked : program[i].kind = "BlockStmt" =>
            LET a == program[i].statements[1]
                b == program[i].statements[2]
            IN IF a.typeAnnotation = "string"
               THEN ThrewAt(i) /\ error = CannotAssign /\ b.initExpr.type = nullptr
               ELSE /\ ~ThrewAt(i)
                    /\ b.initExpr.type = numberType
                    /\ lookup("a", scopes) = nullptr
                    /\ lookup("b", scopes) = nullptr

\* local x: number = 1 or 1 has bound x to number although the initializer's
\* type is a union, and then a declaration whose initializer is no subtype of
\* its annotation has been rejected.
C15_Witness ==
    /\ Len(program) = 2
    /\ status = "threw"
    /\ error = CannotAssign
    /\ program[1].kind = "VarDecl"
    /\ program[1].typeAnnotation = "number"
    /\ getKind(program[1].initExpr.type, types) = "Union"
    /\ program[1].type = numberType
    /\ program[2].kind = "VarDecl"
    /\ program[2].initExpr.kind = "VarExpr"
    /\ program[2].initExpr.type = numberType
    /\ program[2].typeAnnotation = "string"

-----------------------------------------------------------------------------
(* Claims about returns, under ReturnSpec *)

\* The ReturnStmt nodes below a statement, each with the declared return type
\* of the function around it: nullptr outside every function.
RECURSIVE Returns(_, _)
Returns(s, declared) ==
    CASE s.kind = "ReturnStmt" -> {[stmt |-> s, declared |-> declared]}
      [] s.kind = "FunDecl" -> Returns(s.body, ResolveOptional(s.returnTypeAnnotation).ret)
      [] s.kind = "BlockStmt" ->
            UNION {Returns(s.statements[i], declared) : i \in 1..Len(s.statements)}
      [] OTHER -> {}

\* Every value of the return has been given a type.
Inferred(r) == \A k \in 1..Len(r.stmt.return_values) : r.stmt.return_values[k].type # nullptr

\* A return of one value whose type is no subtype of a declared type other
\* than Any.
Mismatch(r) ==
    /\ r.declared # nullptr
    /\ r.declared # anyType
    /\ Len(r.stmt.return_values) = 1
    /\ ~isSubtype(r.stmt.return_values[1].type, r.declared, types)

\* C16: in a function whose declared return type is not Any, a return of
\* exactly one value raises a TypeCheckError unless the value's type is a
\* subtype of the declared type; a return of no value or of two or more, a
\* return in a function whose return type is Any, and a return outside every
\* function never raise a return-type mismatch.
C16_ReturnChecking ==
    \A i \in Checked :
        (\E r \in Returns(program[i], nullptr) : Inferred(r) /\ Mismatch(r))
            <=> (ThrewAt(i) /\ error = WrongReturn)

\* A function declared to return a number has returned two strings, and then
\* a function declared to return a number has been rejected for returning one
\* string after a function nested in it returned a string.
C16_Witness ==
    /\ Len(program) = 2
    /\ status = "threw"
    /\ error = WrongReturn
    /\ program[1].kind = "FunDecl"
    /\ program[1].returnTypeAnnotation = "number"
    /\ \E r \in Returns(program[1], nullptr) :
            /\ Len(r.stmt.return_values) = 2
            /\ r.stmt.return_values[1].type = stringType
    /\ program[2].kind = "FunDecl"
    /\ Len(program[2].body.statements) = 2
    /\ program[2].body.statements[2].return_values[1].type = stringType

-----------------------------------------------------------------------------
(* Claims about member access, under MemberSpec *)

NotATable == "Type error: cannot access member on non-table type"
NoSuchField == "Type error: field does not exist on type"

HasField(t, f, T) == getKind(t, T) = "Table" /\ f \in FieldNames(t, T)

\* C17: a member access obj.f has the type Any when the object's type is Any;
\* otherwise the object's type must be a Table with a field f, and the
\* access has that field's type; an object of any other kind (a primitive, an
\* Array, a Function, a Union, Unknown) and a Table with no field f raise a
\* TypeCheckError.
C17_MemberAccess ==
    /\ \A i \in Checked :
            (/\ program[i].kind = "VarDecl"
             /\ program[i].initExpr.kind = "BinOpExpr"
             /\ program[i].initExpr.op = "MemberAccess") =>
                LET e == program[i].initExpr
                    f == e.right.name
                IN /\ e.left.type # nullptr
                   /\ IF e.left.type = anyType
                      THEN e.type = anyType /\ ~ThrewAt(i)
                      ELSE IF HasField(e.left.type, f, types)
                      THEN /\ e.type = MapGet(Deref(e.left.type, types).fields, f)
                           /\ ~ThrewAt(i)
                      ELSE /\ e.type = nullptr
                           /\ ThrewAt(i)
                           /\ error = IF getKind(e.left.type, types) = "Table"
                                      THEN NoSuchField ELSE NotATable
    /\ \A t \in Refs(types), f \in {"x", "y"} :
            \E r \in {BinOpResult(BinOpExpr(NumberExpr, "MemberAccess", VarExpr(f)), t,
                                  [VarExpr(f) EXCEPT !.type = anyType],
                                  Checker(scopes, types, currentFunctionReturnType))} :
                IF t = anyType THEN r.c.err = "" /\ r.node.type = anyType
                ELSE IF HasField(t, f, types)
                THEN r.c.err = "" /\ r.node.type = MapGet(Deref(t, types).fields, f)
                ELSE r.c.err \in {NotATable, NoSuchField} /\ r.node.type = nullptr

\* x has been bound to a Table with the one field x, and then x.y has been
\* rejected.
C17_Witness ==
    /\ Len(program) = 2
    /\ ThrewAt(2)
    /\ error = NoSuchField
    /\ program[1].kind = "VarDecl"
    /\ HasField(program[1].type, "x", types)
    /\ program[2].initExpr.left.type = program[1].type
    /\ program[2].initExpr.right.name = "y"

-----------------------------------------------------------------------------
(* Claims about indexing, under IndexSpec *)

IndexNotNumber == "Type error: array index must be number"
NotIndexable == "Type error: cannot index non-array/table type"

\* a[b] visited by a TypeChecker whose scope binds a to t and b to u.
IndexOf(t, u) ==
    Visit(IndexExpr(VarExpr("a"), VarExpr("b")),
          Checker(define("b", u, define("a", t, pushScope(<<>>))), types, nullptr))

\* C18: an index expression obj[i] has the type Any when the object's type is
\* Any; on an Array(E) the index's type must be Number or Any, or a
\* TypeCheckError is raised, and the expression has the type E; on a Table it
\* has the type Any whatever the index's type; an object of any other kind
\* raises a TypeCheckError.
C18_Indexing ==
    /\ \A i \in Checked :
            (program[i].kind = "VarDecl" /\ program[i].initExpr.kind = "IndexExpr") =>
                LET e == program[i].initExpr
                    kind == getKind(e.object.type, types)
                IN /\ e.object.type # nullptr /\ e.index.type # nullptr
                   /\ kind \in {"Any", "Table"} => e.type = anyType /\ ~ThrewAt(i)
                   /\ (kind = "Array" /\ e.index.type \in NumberOrAny) =>
                        e.type = Deref(e.object.type, types).elementType /\ ~ThrewAt(i)
                   /\ (kind = "Array" /\ e.index.type \notin NumberOrAny) =>
                        e.type = nullptr /\ ThrewAt(i) /\ error = IndexNotNumber
                   /\ kind \notin {"Any", "Table", "Array"} =>
                        e.type = nullptr /\ ThrewAt(i) /\ error = NotIndexable
    /\ \A t \in Refs(types), u \in Refs(types) :
            \E r \in {IndexOf(t, u)} :
                CASE getKind(t, types) \in {"Any", "Table"} ->
                        r.c.err = "" /\ r.node.type = anyType
                  [] getKind(t, types) = "Array" /\ u \in NumberOrAny ->
                        r.c.err = "" /\ r.node.type = Deref(t, types).elementType
                  [] getKind(t, types) = "Array" /\ u \notin NumberOrAny ->
                        r.c.err = IndexNotNumber /\ r.node.type = nullptr
                  [] OTHER -> r.c.err = NotIndexable /\ r.node.type = nullptr

\* x has been bound to an Array, and then x indexed by a string has been
\* rejected.
C18_Witness ==
    /\ Len(program) = 2
    /\ ThrewAt(2)
    /\ error = IndexNotNumber
    /\ getKind(program[1].type, types) = "Array"
    /\ program[2].initExpr.kind = "IndexExpr"
    /\ program[2].initExpr.object.type = program[1].type
    /\ program[2].initExpr.index.type = stringType

-----------------------------------------------------------------------------
(* Claims about the length operator, under LengthSpec *)

LengthError == "Type error: length operator requires array type"

\* #a visited by a TypeChecker whose scope binds a to t.
LengthOf(t) ==
    Visit(UnaryOpExpr("Length", VarExpr("a")),
          Checker(define("a", t, pushScope(<<>>)), types, nullptr))

\* C21: a length expression #e type-checks exactly when the type of e is an
\* Array or Any, and its type is then Number; an operand of a primitive type
\* and an operand whose type is a Table raise a TypeCheckError.
C21_Length ==
    /\ \A i \in Checked :
            (/\ program[i].kind = "VarDecl"
             /\ program[i].initExpr.kind = "UnaryOpExpr"
             /\ program[i].initExpr.op = "Length") =>
                LET e == program[i].initExpr
                IN /\ e.right.type # nullptr
                   /\ IF getKind(e.right.type, types) \in {"Array", "Any"}
                      THEN e.type = numberType /\ program[i].type = numberType /\ ~ThrewAt(i)
                      ELSE e.type = nullptr /\ ThrewAt(i) /\ error = LengthError
    /\ \A t \in Refs(types) :
            \E r \in {LengthOf(t)} :
                IF getKind(t, types) \in {"Array", "Any"}
                THEN r.c.err = "" /\ r.node.type = numberType
                ELSE r.c.err = LengthError /\ r.node.type = nullptr

\* x has been bound to a Table, and then #x has been rejected.
C21_Witness ==
    /\ Len(program) = 2
    /\ ThrewAt(2)
    /\ error = LengthError
    /\ getKind(program[1].type, types) = "Table"
    /\ program[2].initExpr.kind = "UnaryOpExpr"
    /\ program[2].initExpr.right.type = program[1].type

-----------------------------------------------------------------------------
(* Claims about annotations, under AnnotSpec *)

NotYetSupported ==
    {"Function type annotations not yet supported", "Table type annotations not yet supported",
     "Array type annotations not yet supported", "Union type annotations not yet supported"}

\* The annotations of the declarations at and below a statement.
RECURSIVE Carried(_)
Carried(s) ==
    CASE s.kind = "VarDecl" -> {s.typeAnnotation}
      [] s.kind = "FunDecl" ->
            {s.returnTypeAnnotation} \cup {s.params[k].typeAnnotation : k \in 1..Len(s.params)}
                \cup Carried(s.body)
      [] s.kind = "BlockStmt" -> UNION {Carried(s.statements[k]) : k \in 1..Len(s.statements)}
      [] s.kind = "IfStmt" -> Carried(s.then_branch) \cup Carried(s.else_branch)
      [] OTHER -> {}

SingletonOf(ann) ==
    CASE ann = "number" -> numberType
      [] ann = "string" -> stringType
      [] ann = "boolean" -> booleanType
      [] ann = "nil" -> nilType
      [] ann = nullopt -> anyType

\* C22: a primitive annotation (number, string, boolean, nil) resolves to the
\* primitive singleton of that name; a function, table, array or union
\* annotation always raises a TypeCheckError that says "not yet supported", so
\* a variable or function declaration that carries one fails the check.
C22_Annotations ==
    /\ \A ann \in BasicAnnotations :
            resolveTypeAnnotation(ann) = [ret |-> SingletonOf(ann), err |-> ""]
    /\ \A ann \in OtherAnnotations :
            resolveTypeAnnotation(ann).err \in NotYetSupported
    /\ \A i \in Checked :
            LET d == program[i]
            IN /\ Carried(d) \cap OtherAnnotations # {} => ThrewAt(i)
               /\ (/\ d.kind = "VarDecl"
                   /\ d.typeAnnotation \in OtherAnnotations
                   /\ d.initExpr.type # nullptr)
                        => error \in NotYetSupported /\ d.type = nullptr
               /\ (/\ d.kind = "FunDecl"
                   /\ ({d.returnTypeAnnotation}
                        \cup {d.params[k].typeAnnotation : k \in 1..Len(d.params)})
                            \cap OtherAnnotations # {})
                        => error \in NotYetSupported /\ d.type = nullptr
               /\ (d.kind = "FunDecl" /\ Carried(d) \cap OtherAnnotations = {}) =>
                    /\ ~ThrewAt(i)
                    /\ getKind(d.type, types) = "Function"
                    /\ Deref(d.type, types).returnType = SingletonOf(d.returnTypeAnnotation)
                    /\ \A k \in 1..Len(d.params) :
                            Deref(d.type, types).paramTypes[k] = SingletonOf(d.params[k].typeAnnotation)

\* A function with a parameter annotated number has been declared, and then
\* a variable declaration with a table annotation has been rejected after its
\* initializer was given a type.
C22_Witness ==
    /\ Len(program) = 2
    /\ ThrewAt(2)
    /\ error \in NotYetSupported
    /\ program[1].kind = "FunDecl"
    /\ Len(program[1].params) >= 1
    /\ program[1].params[1].typeAnnotation = "number"
    /\ program[2].kind = "VarDecl"
    /\ program[2].typeAnnotation = "table"
    /\ program[2].initExpr.type = numberType

-----------------------------------------------------------------------------
(* Claims about subtyping and unions, under SubtypeSpec *)

Members(u, T) == {Deref(u, T).types[k] : k \in 1..Len(Deref(u, T).types)}

\* C23: with a Union as super, and sub neither the same type as super nor
\* Unknown, sub is a subtype exactly when it is a subtype of one member of
\* super, also when sub is a Union itself; with a Union as sub and a super
\* that is neither a Union nor Any, sub is a subtype exactly when every
\* member of sub is a subtype of super; two types that are not the same
\* type, neither of them Any, Unknown or a Union, are not subtypes.
C23_UnionSubtyping ==
    \A sub \in Refs(types), super \in Refs(types) :
        /\ (/\ getKind(super, types) = "Union"
            /\ ~isSameType(sub, super, types)
            /\ getKind(sub, types) # "Unknown")
                => (isSubtype(sub, super, types)
                        <=> \E m \in Members(super, types) : isSubtype(sub, m, types))
        /\ (/\ getKind(sub, types) = "Union"
            /\ getKind(super, types) \notin {"Union", "Any"})
                => (isSubtype(sub, super, types)
                        <=> \A m \in Members(sub, types) : isSubtype(m, super, types))
        /\ (/\ getKind(sub, types) \notin {"Union", "Any", "Unknown"}
            /\ getKind(super, types) \notin {"Union", "Any", "Unknown"}
            /\ ~isSameType(sub, super, types))
                => ~isSubtype(sub, super, types)

\* Two Unions exist of which the first is no subtype of the second although
\* every member of the first is.
C23_Witness ==
    \E sub \in Unions(types), super \in Unions(types) :
        /\ ~isSameType(sub, super, types)
        /\ ~isSubtype(sub, super, types)
        /\ \A m \in Members(sub, types) : isSubtype(m, super, types)

-----------------------------------------------------------------------------
(* Claims about the types of logical expressions, under LogicSpec *)

\* C27: isSameType is symmetric: for every two types that exist, the Unions
\* that createUnionType made from lists holding the same type twice
\* included, isSameType(a, b) equals isSameType(b, a).
C27_Symmetric ==
    \A a \in Refs(types), b \in Refs(types) :
        isSameType(a, b, types) <=> isSameType(b, a, types)

-----------------------------------------------------------------------------
(* Claims about function declarations, under FunSpec *)

\* The types of a parameter list: the annotated type, Any when there is none.
Signature(params) == [k \in 1..Len(params) |-> SingletonOf(params[k].typeAnnotation)]

\* The type a name has inside the body of d: its parameter type, Any when it
\* is no parameter.
InBody(name, d) ==
    IF \E k \in 1..Len(d.params) : d.params[k].name = name
    THEN SingletonOf(d.params[CHOOSE k \in 1..Len(d.params) : d.params[k].name = name]
                        .typeAnnotation)
    ELSE anyType

\* C24: a function's name is bound to its Function type in the enclosing
\* scope before its body is checked, so a call of the function inside its
\* own body is checked against its own signature (arity and argument types)
\* and has the declared return type; each parameter is bound to its annotated
\* type (Any when it has none) in a scope that is popped when the declaration
\* is finished: afterwards lookup does not find the parameters and still
\* finds the function's name.
C24_FunDeclBinding ==
    \A i \in Checked :
        LET d == program[i]
            x == d.body.statements[1]
            k == x.initExpr
            sig == Signature(d.params)
        IN /\ k.callee.type # nullptr
           /\ getKind(k.callee.type, types) = "Function"
           /\ Deref(k.callee.type, types).paramTypes = sig
           /\ Deref(k.callee.type, types).returnType = SingletonOf(d.returnTypeAnnotation)
           /\ d.type = k.callee.type
           /\ \A j \in 1..(i - 1) : program[j].type # d.type
           /\ IF Len(k.args) # Len(sig)
              THEN ThrewAt(i) /\ error = WrongArity /\ k.type = nullptr
              ELSE /\ \A n \in 1..Len(k.args) :
                        k.args[n].kind = "VarExpr" => k.args[n].type = InBody(k.args[n].name, d)
                   /\ IF \E n \in 1..Len(k.args) : ~isSubtype(k.args[n].type, sig[n], types)
                      THEN ThrewAt(i) /\ error = ArgumentMismatch /\ k.type = nullptr
                      ELSE /\ ~ThrewAt(i)
                           /\ k.type = SingletonOf(d.returnTypeAnnotation)
                           /\ x.type = k.type
           /\ (i = Len(program) /\ status = "ready") =>
                /\ lookup("f", scopes) = d.type
                /\ \A n \in {"a", "b", "x"} : lookup(n, scopes) = nullptr
                /\ Len(scopes) = 1

\* A function of one number parameter that returns a number has called
\* itself with its parameter, and then a function of two parameters has been
\* rejected for calling itself with one argument.
C24_Witness ==
    /\ Len(program) = 2
    /\ ThrewAt(2)
    /\ error = WrongArity
    /\ Len(program[1].params) = 1
    /\ program[1].params[1].typeAnnotation = "number"
    /\ program[1].body.statements[1].initExpr.args[1].type = numberType
    /\ program[1].body.statements[1].initExpr.type = numberType
    /\ Len(program[2].params) = 2
    /\ Len(program[2].body.statements[1].initExpr.args) = 1
    /\ program[2].body.statements[1].initExpr.callee.type = program[2].type

-----------------------------------------------------------------------------
(* Claims about nested functions, under NestSpec *)

\* A value of type t may not be returned where the declared type is that of
\* the annotation.
Refused(t, ann) == ann # nullopt /\ ~isSubtype(t, SingletonOf(ann), types)

\* C25: when a function declaration has been checked to its end the slot of
\* the current return type holds what it held before the declaration was
\* entered: a return of the outer function that follows a nested function
\* declaration is checked against the outer function's declared return type,
\* a return inside the nested function against the nested function's, and a
\* return after the declaration against none.
C25_ReturnTypeRestored ==
    /\ status = "ready" => currentFunctionReturnType = nullptr
    /\ \A i \in Checked :
            IF program[i].kind = "ReturnStmt" THEN ~ThrewAt(i)
            ELSE LET f == program[i]
                     g == f.body.statements[1]
                     v == g.body.statements[1].return_values[1]
                     w == f.body.statements[2].return_values[1]
                 IN /\ v.type # nullptr
                    /\ IF Refused(v.type, g.returnTypeAnnotation)
                       THEN ThrewAt(i) /\ error = WrongReturn /\ w.type = nullptr
                       ELSE /\ w.type # nullptr
                            /\ IF Refused(w.type, f.returnTypeAnnotation)
                               THEN ThrewAt(i) /\ error = WrongReturn
                               ELSE ~ThrewAt(i)

\* A function declared to return a number has returned a number after a
\* nested function declared to return a string returned a string, and after
\* it a string has been returned outside every function.
C25_Witness ==
    /\ Len(program) = 2
    /\ status = "ready"
    /\ program[1].kind = "FunDecl"
    /\ program[1].returnTypeAnnotation = "number"
    /\ program[1].body.statements[1].returnTypeAnnotation = "string"
    /\ program[1].body.statements[1].body.statements[1].return_values[1].type = stringType
    /\ program[1].body.statements[2].return_values[1].type = numberType
    /\ program[2].kind = "ReturnStmt"
    /\ program[2].return_values[1].type = stringType

-----------------------------------------------------------------------------
(* Claims about assignments, under AssignSpec *)

\* The statement that the step just taken has checked.
JustChecked == program'[Len(program')]

\* C26: an assignment only infers its two operands: x = e raises a
\* TypeCheckError only if inferring x or inferring e raises one, even when the
\* type of e is no subtype of the type that x is bound to, and it leaves the
\* scopes, and so what lookup finds for x, as they were.
C26_AssignUnchecked ==
    [][(Len(program') > Len(program) /\ JustChecked.kind = "AssignStmt") =>
            /\ JustChecked.left.visits = 1
            /\ JustChecked.right.visits = (IF JustChecked.left.type = nullptr THEN 0 ELSE 1)
            /\ status' = "threw" <=>
                    \/ JustChecked.left.type = nullptr
                    \/ JustChecked.right.type = nullptr
            /\ status' = "threw" => error' \in {ArithmeticError, NotIndexable}
            /\ scopes' = scopes
            /\ lookup("x", scopes') = lookup("x", scopes)
            /\ currentFunctionReturnType' = currentFunctionReturnType]_vars

\* A string has been assigned to x, bound to Number, without an error, and x
\* is still bound to Number.
C26_Witness ==
    /\ Len(program) = 2
    /\ status = "ready"
    /\ program[1].kind = "VarDecl"
    /\ program[1].type = numberType
    /\ program[2].kind = "AssignStmt"
    /\ program[2].left.kind = "VarExpr"
    /\ program[2].left.type = numberType
    /\ program[2].right.type = stringType
    /\ ~isSubtype(stringType, lookup("x", scopes), types)
    /\ lookup("x", scopes) = numberType

-----------------------------------------------------------------------------
(* Claims about scopes, under ScopeSpec *)

\* The names that the programs declare only inside a block, a branch or a
\* function body.
InnerNames == {"a", "b", "c", "p"}

\* C28: a block, an if statement or a function declaration that is checked
\* to its end without an error leaves the scope stack as deep as it found it;
\* after every statement checked without an error the stack holds exactly
\* the global scope, in which a block or an if has changed nothing and a
\* function declaration only its own name, so that no name declared inside a
\* block, a branch or a function body is found by lookup afterwards.
C28_ScopeBalance ==
    [][(Len(program') > Len(program) /\ status' = "ready") =>
            /\ Len(scopes') = Len(scopes)
            /\ Len(scopes') = 1
            /\ \A n \in InnerNames : lookup(n, scopes') = nullptr
            /\ JustChecked.kind \in {"BlockStmt", "IfStmt"} => scopes' = scopes
            /\ JustChecked.kind = "FunDecl" =>
                    scopes' = define("f", JustChecked.type, scopes)
            /\ JustChecked.kind = "VarDecl" =>
                    scopes' = define("x", JustChecked.type, scopes)]_vars

\* A function whose body declares a in a block and b in a nested block, and
\* then an if with an elseif and an else whose three branches declare a, c
\* and b, have been checked without an error; x declared in neither; only
\* the global scope is left and it binds f alone.
C28_Witness ==
    /\ Len(program) = 2
    /\ status = "ready"
    /\ program[1].kind = "FunDecl"
    /\ Len(program[1].body.statements) = 2
    /\ program[1].body.statements[2].statements[1].type = stringType
    /\ program[2].kind = "IfStmt"
    /\ program[2].then_branch.statements[1].type = numberType
    /\ program[2].else_branch.kind = "IfStmt"
    /\ program[2].else_branch.then_branch.statements[1].type = numberType
    /\ program[2].else_branch.else_branch # NoStmt
    /\ program[2].else_branch.else_branch.statements[1].type = stringType
    /\ Len(scopes) = 1
    /\ lookup("f", scopes) = program[1].type
    /\ \A n \in InnerNames \cup {"x"} : lookup(n, scopes) = nullptr

-----------------------------------------------------------------------------
(* Claims about the state an error leaves behind, under NestSpec *)

\* C29: when typeCheck is left by a TypeCheckError raised inside a block or a
\* function body, the scope stack is as deep as it was before the failing
\* top-level statement was entered and the slot of the current return type
\* holds the value it held then.
C29_StateAfterError ==
    [][(Len(program') > Len(program) /\ status' = "threw") =>
            /\ Len(scopes') = Len(scopes)
            /\ currentFunctionReturnType' = currentFunctionReturnType]_vars

-----------------------------------------------------------------------------
(* Claims about the order of declarations, under OrderSpec *)

\* What a reference to a name bound to t, or to none when t is nullptr, gets.
Resolved(t) == IF t = nullptr THEN anyType ELSE t

\* The type of the initializer e of a declaration of x made where x was bound
\* to t, or to none.
InitializedWith(e, t) == e.kind = "VarExpr" => e.type = Resolved(t)

\* C30: the initializer of local x = e is inferred before x is bound: an x
\* inside e gets the binding of x that was visible before the declaration,
\* the outer one, the earlier one of the same scope, or Any when there is
\* none; a second local x in the same scope replaces the first, and a later
\* reference to x gets the type of the most recent declaration.
C30_DeclarationOrder ==
    /\ (status = "ready" /\ program # <<>> /\ program[Len(program)].kind = "VarDecl") =>
            lookup("x", scopes) = program[Len(program)].type
    /\ \A i \in Checked :
            IF program[i].kind = "VarDecl"
            THEN /\ ~ThrewAt(i)
                 /\ InitializedWith(program[i].initExpr, BoundBefore(i))
                 /\ program[i].type = program[i].initExpr.type
            ELSE LET d1 == program[i].statements[1]
                     d2 == program[i].statements[2]
                     d3 == program[i].statements[3]
                 IN /\ InitializedWith(d1.initExpr, BoundBefore(i))
                    /\ d1.type = d1.initExpr.type
                    /\ InitializedWith(d2.initExpr, d1.type)
                    /\ d2.initExpr.type # nullptr
                    /\ IF d2.typeAnnotation = nullopt
                       THEN /\ ~ThrewAt(i)
                            /\ d2.type = d2.initExpr.type
                            /\ d3.initExpr.type = d2.type
                       ELSE IF isSubtype(d2.initExpr.type, numberType, types)
                       THEN /\ ~ThrewAt(i)
                            /\ d2.type = numberType
                            /\ d3.initExpr.type = numberType
                       ELSE /\ ThrewAt(i) /\ error = CannotAssign
                            /\ d3.initExpr.visits = 0

\* After local x = 1, a block has declared x from the outer x, a Number,
\* then x again from a string, and a reference to x after both got String.
C30_Witness ==
    /\ Len(program) = 2
    /\ status = "ready"
    /\ program[1].kind = "VarDecl"
    /\ program[1].type = numberType
    /\ program[2].kind = "BlockStmt"
    /\ program[2].statements[1].initExpr.kind = "VarExpr"
    /\ program[2].statements[1].type = numberType
    /\ program[2].statements[2].initExpr.kind = "StringExpr"
    /\ program[2].statements[2].type = stringType
    /\ program[2].statements[3].initExpr.type = stringType
    /\ lookup("x", scopes) = numberType

====
